---- MODULE Spec2Model ----
(***************************************************************************)
(* The Intent Execution Engine of GraphLint / EKC                          *)
(* (packages/intent-engine/src/engine.ts) as a state machine.              *)
(*                                                                         *)
(* An engine is constructed, initialized once from three documents (the    *)
(* SSoT, the effective schema, the intent catalog) and then executes one   *)
(* intent per call.  Calls are serial here: each Execute step is one whole *)
(* call of IntentEngine.execute, from the uuid it draws to the result it   *)
(* returns.                                                                *)
(*                                                                         *)
(* The second part is the Criteria Engine (packages/criteria-engine):      *)
(* rules are loaded from the catalogs of a directory and a graph is        *)
(* evaluated against them, one whole call of CriteriaEngine.evaluate per   *)
(* Evaluate step (specification SpecCriteria).  The third part is the lint *)
(* core (packages/core/src/core.ts): plugins are registered, a             *)
(* configuration is loaded and a graph is linted by the plugin selected    *)
(* for it (specification SpecLint).                                        *)
(*                                                                         *)
(* JavaScript values:                                                      *)
(*   - an optional value (undefined / null / absent key) is a sequence of  *)
(*     length 0 (None) or 1 (Some(v));                                     *)
(*   - ids, kinds and message parts are strings; a uuid is "u<k>";         *)
(*   - a timestamp is the reading of a clock that advances at every call;  *)
(*   - attrs is an open mapping; the model tracks one member of it,        *)
(*     `statement`: a string, the number NaN, null, or Absent.             *)
(***************************************************************************)
EXTENDS Integers, Sequences, FiniteSets, TLC

(***************************************************************************)
(* Bounds of the model                                                     *)
(***************************************************************************)
\* execute calls per behaviour
MaxCalls == 2
\* loadRules calls per behaviour
MaxLoads == 2
\* evaluate calls per behaviour
MaxEvaluations == 2
\* setQualityGate and checkQualityGate calls made on one Criteria Engine
MaxGateCalls == 2
\* registerPlugin, unregisterPlugin, clearPlugins, loadConfig and lint calls
\* made on one GraphLintCore
MaxLintOps == 4
\* calls of the lint function the core package exports
MaxExportedLints == 2

(***************************************************************************)
(* Optional values                                                         *)
(***************************************************************************)
None == <<>>
Some(v) == <<v>>
IsSome(o) == Len(o) > 0
Val(o) == o[1]

\* the empty string, a string a caller may give for a reference
Empty == ""

\* the value a JavaScript caller sees for a missing member of attrs
Absent == "<absent>"
\* the number NaN, and null
NotANumber == "<NaN>"
Null == "<null>"
\* an id that names no node
Ghost == "ghost"

(***************************************************************************)
(* Array helpers                                                           *)
(***************************************************************************)
\* Array.prototype.includes
Includes(s, v) == \E i \in DOMAIN s : s[i] = v

\* nodes.findIndex((n) => n.id === id): the index of the first node with
\* this id, 0 (for -1) when there is none
IndexOfId(nodes, id) ==
    IF \E i \in DOMAIN nodes : nodes[i].id = id
    THEN CHOOSE i \in DOMAIN nodes :
            /\ nodes[i].id = id
            /\ \A j \in 1..(i - 1) : nodes[j].id # id
    ELSE 0

\* splice(i, 1)
RemoveAt(s, i) == SubSeq(s, 1, i - 1) \o SubSeq(s, i + 1, Len(s))

(***************************************************************************)
(* The effective schema document                                           *)
(***************************************************************************)
SchemaDoc ==
    [ node_kinds |-> <<"Stakeholder", "Need", "Requirement">>,
      edge_kinds |-> <<"expresses", "refinesTo", "relatesTo", "conflictsWith">>,
      edge_definitions |->
        [ expresses |-> [from |-> <<"Stakeholder">>, to |-> <<"Need">>],
          refinesTo |-> [from |-> <<"Need">>, to |-> <<"Requirement">>],
          relatesTo |-> [from |-> <<"Need", "Requirement">>,
                         to   |-> <<"Need", "Requirement">>] ] ]

(***************************************************************************)
(* Intent catalogs.  A catalog maps an intent id to its declared           *)
(* parameters in declaration order.                                        *)
(***************************************************************************)
Param(n, t, r) == [name |-> n, type |-> t, required |-> r]

\* every reference is declared NodeRef, every kind NodeKind / EdgeKind
CatalogStrict ==
    [ version |-> "strict",
      intents |->
        << [id |-> "I.AddNode",
            parameters |-> << Param("kind", "NodeKind", TRUE),
                              Param("attrs", "object", FALSE) >>],
           [id |-> "I.AddEdge",
            parameters |-> << Param("from_ref", "NodeRef", TRUE),
                              Param("edge_kind", "EdgeKind", TRUE),
                              Param("to_ref", "NodeRef", TRUE) >>],
           [id |-> "I.UpdateNodeAttrs",
            parameters |-> << Param("node_ref", "NodeRef", TRUE),
                              Param("patch", "JsonPatch", TRUE) >>],
           [id |-> "I.DeleteNode",
            parameters |-> << Param("node_ref", "NodeRef", TRUE),
                              Param("cascade", "boolean", FALSE) >>],
           [id |-> "I.AddNeed",
            parameters |-> << Param("attrs", "object", TRUE),
                              Param("expressed_by", "NodeRef", FALSE) >>],
           [id |-> "I.AddRequirementRefinement",
            parameters |-> << Param("need_ref", "NodeRef", TRUE),
                              Param("requirement_attrs", "object", TRUE) >>],
           [id |-> "I.DeleteEdge",
            parameters |-> << Param("from_ref", "NodeRef", TRUE),
                              Param("edge_kind", "EdgeKind", TRUE),
                              Param("to_ref", "NodeRef", TRUE) >>] >> ]

\* a catalog that declares references and kinds as plain strings, so that
\* only the handlers check them
CatalogLoose ==
    [ version |-> "loose",
      intents |->
        << [id |-> "I.AddNode",
            parameters |-> << Param("kind", "NodeKind", TRUE),
                              Param("attrs", "object", FALSE) >>],
           [id |-> "I.AddEdge",
            parameters |-> << Param("from_ref", "string", TRUE),
                              Param("edge_kind", "string", TRUE),
                              Param("to_ref", "string", TRUE) >>],
           [id |-> "I.UpdateNodeAttrs",
            parameters |-> << Param("node_ref", "string", TRUE),
                              Param("patch", "JsonPatch", TRUE) >>],
           [id |-> "I.DeleteNode",
            parameters |-> << Param("node_ref", "string", TRUE),
                              Param("cascade", "boolean", FALSE) >>],
           [id |-> "I.AddNeed",
            parameters |-> << Param("attrs", "object", TRUE),
                              Param("expressed_by", "string", FALSE) >>],
           [id |-> "I.AddRequirementRefinement",
            parameters |-> << Param("need_ref", "string", TRUE),
                              Param("requirement_attrs", "object", TRUE) >>],
           [id |-> "I.ToggleEdge", parameters |-> << >>] >> ]

(***************************************************************************)
(* SSoT documents                                                          *)
(***************************************************************************)
NodeMetadata(at, by, intentId) ==
    [created_at |-> at, created_by |-> by, intent_id |-> intentId]

MkNode(id, kind, attrs, md) ==
    [id |-> id, kind |-> kind, attrs |-> attrs, metadata |-> md]

MkEdge(from, kind, to, md) ==
    [from |-> from, kind |-> kind, to |-> to, metadata |-> md]

Attrs(v) == [statement |-> v]

Imported == NodeMetadata(0, "import", None)

Meta(t) == [last_updated |-> t, collaboration_mode |-> "copilot"]

EmptyIndexes ==
    [ by_kind |-> << >>, incoming_edges |-> << >>, outgoing_edges |-> << >> ]

\* an empty graph, saved without indexes
DocEmpty ==
    [ meta |-> Meta(0), nodes |-> << >>, edges |-> << >>, indexes |-> None ]

\* a stakeholder, its need and the need's requirement; saved without indexes
DocChain ==
    [ meta |-> Meta(0),
      nodes |-> << MkNode("a1", "Stakeholder", Attrs("x"), Imported),
                   MkNode("n1", "Need", Attrs("x"), Imported),
                   MkNode("r1", "Requirement", Attrs("x"), Imported) >>,
      edges |-> << MkEdge("a1", "expresses", "n1", Imported),
                   MkEdge("n1", "refinesTo", "r1", Imported) >>,
      indexes |-> None ]

\* the same graph saved with an indexes member that was built for an
\* earlier, empty graph
DocStale == [DocChain EXCEPT !.indexes = Some(EmptyIndexes)]

\* the installations the model starts from: the options given to the
\* constructor and the two documents initialize will read
Deployment(opts, doc, cat) ==
    [options |-> opts, ssotFile |-> doc, catalogFile |-> cat]

(***************************************************************************)
(* State                                                                   *)
(***************************************************************************)
VARIABLES
    options,      \* IntentEngineOptions given to the constructor
    ssotFile,     \* the document at options.ssotPath
    catalogFile,  \* the document intent_catalog.yaml
    historyFiles, \* the files of options.historyDir: intent id -> entry
    ssot,         \* this.ssot: None (null) until initialize
    schema,       \* this.schema
    catalog,      \* this.catalog
    uuidCount,    \* uuids drawn from uuidv4 so far
    clock,        \* the reading of the system clock
    calls,        \* execute calls made so far
    intent,       \* the argument of the last execute call, as it is on return
    pre,          \* this.ssot and the files when the last call started
    result,       \* what the last execute call returned
    ended,        \* where the last execute call ended
    inflight,     \* the execute calls that are suspended at an await
    held,         \* the rollback snapshot a caller kept from a failed call
    criteriaDir,  \* the catalogs of options.criteriaDir, in readdir order
    rules,        \* CriteriaEngine.rules
    loads,        \* loadRules calls made so far
    evaluations,  \* evaluate calls made so far
    evaluation,   \* the last evaluate call: its argument and what it gave
    previous,     \* the evaluate call before the last one
    qualityGate,  \* CriteriaEngine.qualityGate: None until setQualityGate
    gateCalls,    \* setQualityGate and checkQualityGate calls made so far
    gateCheck,    \* the last checkQualityGate call and what it returned
    plugins,      \* GraphLintCore.plugins: the entries of the Map, in its order
    lintConfig,   \* GraphLintCore.config
    registeredAs, \* plugin name -> the config its registerPlugin call was given
    registeredAt, \* plugin name -> when the name was registered while absent
    lintOps,      \* calls made on the GraphLintCore so far
    linted,       \* the last lint call: its arguments and what it gave
    exported      \* the calls of the exported lint function and what they gave

\* the state of the Criteria Engine
criteriaVars == << criteriaDir, rules, loads, evaluations, evaluation, previous,
                   qualityGate, gateCalls, gateCheck >>

\* the state of the GraphLintCore
lintVars == << plugins, lintConfig, registeredAs, registeredAt, lintOps,
              linted, exported >>

\* a GraphLintConfig; this.config starts as {}
GraphLintConfig(pluginConfigs, defaultPlugin, autoDetect, activePhase) ==
    [ plugins |-> pluginConfigs, defaultPlugin |-> defaultPlugin,
      autoDetect |-> autoDetect, activePhase |-> activePhase ]

\* a GraphLintCore as constructed
LintConstructed ==
    /\ plugins = << >>
    /\ lintConfig = GraphLintConfig(<< >>, << >>, << >>, << >>)
    /\ registeredAs = << >>
    /\ registeredAt = << >>
    /\ lintOps = 0
    /\ linted = << >>
    /\ exported = << >>

\* the state of the Intent Engine
engineVars == << options, ssotFile, catalogFile, historyFiles, ssot, schema,
                 catalog, uuidCount, calls, intent, pre, result, ended,
                 inflight, held >>

vars == << options, ssotFile, catalogFile, historyFiles, ssot, schema, catalog,
           uuidCount, clock, calls, intent, pre, result, ended, inflight, held,
           criteriaDir, rules, loads, evaluations, evaluation, previous,
           qualityGate, gateCalls, gateCheck, plugins, lintConfig,
           registeredAs, registeredAt, lintOps, linted, exported >>

Uuid(k) == "u" \o ToString(k)

Options(autoSave, historyDir) ==
    [autoSave |-> autoSave, historyDir |-> historyDir]

(***************************************************************************)
(* Helpers of the engine: findNode, nodeExists                             *)
(***************************************************************************)
\* findNode: the first node with this id, None when there is none
findNode(s, id) ==
    LET i == IndexOfId(s.nodes, id)
    IN  IF i = 0 THEN None ELSE Some(s.nodes[i])

nodeExists(s, id) == \E i \in DOMAIN s.nodes : s.nodes[i].id = id

(***************************************************************************)
(* rebuildIndexes: the three loops of the method                           *)
(***************************************************************************)
\* obj[key].push(v), creating obj[key] = [] first when it is missing
PushAt(obj, key, v) ==
    IF key \in DOMAIN obj
    THEN [obj EXCEPT ![key] = Append(@, v)]
    ELSE obj @@ (key :> <<v>>)

RECURSIVE IndexNodes(_, _)
IndexNodes(nodes, byKind) ==
    IF nodes = << >> THEN byKind
    ELSE IndexNodes(Tail(nodes), PushAt(byKind, Head(nodes).kind, Head(nodes).id))

RECURSIVE IndexOutgoing(_, _)
IndexOutgoing(edges, out) ==
    IF edges = << >> THEN out
    ELSE IndexOutgoing(Tail(edges), PushAt(out, Head(edges).from, Head(edges)))

RECURSIVE IndexIncoming(_, _)
IndexIncoming(edges, inc) ==
    IF edges = << >> THEN inc
    ELSE IndexIncoming(Tail(edges), PushAt(inc, Head(edges).to, Head(edges)))

\* the object assigned to this.ssot.indexes
BuildIndexes(s) ==
    [ by_kind        |-> IndexNodes(s.nodes, << >>),
      incoming_edges |-> IndexIncoming(s.edges, << >>),
      outgoing_edges |-> IndexOutgoing(s.edges, << >>) ]

\* a rebuild that keeps an indexes member that is already there
rebuildIndexesIfMissing(s) ==
    IF IsSome(s.indexes) THEN s
    ELSE [s EXCEPT !.indexes = Some(BuildIndexes(s))]

\* a rebuild whose loops push onto the indexes that are there
rebuildIndexesOntoPrevious(s) ==
    LET prev == IF IsSome(s.indexes) THEN Val(s.indexes) ELSE EmptyIndexes
    IN  [s EXCEPT !.indexes =
           Some([ by_kind        |-> IndexNodes(s.nodes, prev.by_kind),
                  incoming_edges |-> IndexIncoming(s.edges, prev.incoming_edges),
                  outgoing_edges |-> IndexOutgoing(s.edges, prev.outgoing_edges) ])]

rebuildIndexes(s) == [s EXCEPT !.indexes = Some(BuildIndexes(s))]

\* JSON.parse(JSON.stringify(v)) of an attribute value: a string comes back
\* as it is, NaN is written as null, a member whose value is undefined is
\* left out and reads as undefined in the copy
JsonValue(v) == IF v = NotANumber THEN Null ELSE v

\* JSON.parse(JSON.stringify(s)): a copy built member by member
JsonClone(s) ==
    [ meta    |-> [last_updated |-> s.meta.last_updated,
                   collaboration_mode |-> s.meta.collaboration_mode],
      nodes   |-> [i \in DOMAIN s.nodes |->
                     MkNode(s.nodes[i].id, s.nodes[i].kind,
                            Attrs(JsonValue(s.nodes[i].attrs.statement)),
                            s.nodes[i].metadata)],
      edges   |-> [i \in DOMAIN s.edges |->
                     MkEdge(s.edges[i].from, s.edges[i].kind, s.edges[i].to,
                            s.edges[i].metadata)],
      indexes |-> s.indexes ]

(***************************************************************************)
(* Intents, errors, change records, results                                *)
(***************************************************************************)
\* a params payload with no member set
NoParams ==
    [ kind |-> None, attrs |-> None, from_ref |-> None, edge_kind |-> None,
      to_ref |-> None, node_ref |-> None, patch |-> None, cascade |-> None,
      expressed_by |-> None, need_ref |-> None, requirement_attrs |-> None ]

MkIntent(type, params, metadata) ==
    [type |-> type, params |-> params, metadata |-> metadata]

IntentMetadata(id, t, source, mode) ==
    [intent_id |-> id, timestamp |-> t, source |-> source,
     collaboration_mode |-> mode]

Err(code, message, field) ==
    [code |-> code, message |-> message, field |-> field]

Change(type, target, details) ==
    [type |-> type, target |-> target, details |-> details]

EdgeTarget(from, kind, to) == from \o "->" \o kind \o "->" \o to

\* an IntentResult; kind tells how the call ended: "returned" (the promise
\* resolved to this result) or "rejected" (an exception left execute)
MkResult(kind, success, intentId, changes, errors, rollback) ==
    [ kind |-> kind, success |-> success, intent_id |-> intentId,
      changes |-> changes, errors |-> errors, rollback |-> rollback ]

NoResult == MkResult("none", FALSE, "", None, None, None)

Deployments ==
    { Deployment(Options(FALSE, FALSE), DocChain, CatalogStrict),
      Deployment(Options(TRUE, TRUE), DocChain, CatalogLoose),
      Deployment(Options(TRUE, TRUE), DocStale, CatalogStrict),
      Deployment(Options(FALSE, FALSE), DocEmpty, CatalogLoose) }

(***************************************************************************)
(* validateIntent                                                          *)
(***************************************************************************)
\* the body of the loop over the declared parameters, for one parameter
ParamErrors(s, sch, def, value) ==
    (IF def.required /\ ~IsSome(value)
     THEN << Err("MISSING_PARAMETER",
                 <<"Required parameter", def.name, "is missing">>,
                 Some(def.name)) >>
     ELSE << >>)
    \o
    (IF IsSome(value)
     THEN (IF def.type = "NodeRef" /\ ~nodeExists(s, Val(value))
           THEN << Err("INVALID_NODE_REF",
                       <<"Node", Val(value), "does not exist">>,
                       Some(def.name)) >>
           ELSE << >>)
          \o
          (IF def.type = "NodeKind" /\ ~Includes(sch.node_kinds, Val(value))
           THEN << Err("INVALID_NODE_KIND",
                       <<"Node kind", Val(value), "not in schema">>,
                       Some(def.name)) >>
           ELSE << >>)
          \o
          (IF def.type = "EdgeKind" /\ ~Includes(sch.edge_kinds, Val(value))
           THEN << Err("INVALID_EDGE_KIND",
                       <<"Edge kind", Val(value), "not in schema">>,
                       Some(def.name)) >>
           ELSE << >>)
     ELSE << >>)

\* a validation that returns at the first parameter in error
RECURSIVE ValidateParamsFirstOnly(_, _, _, _)
ValidateParamsFirstOnly(s, sch, defs, params) ==
    IF defs = << >> THEN << >>
    ELSE LET e == ParamErrors(s, sch, Head(defs), params[Head(defs).name])
         IN  IF e # << >> THEN e
             ELSE ValidateParamsFirstOnly(s, sch, Tail(defs), params)

RECURSIVE ValidateParams(_, _, _, _)
ValidateParams(s, sch, defs, params) ==
    IF defs = << >> THEN << >>
    ELSE ParamErrors(s, sch, Head(defs), params[Head(defs).name])
         \o ValidateParams(s, sch, Tail(defs), params)

\* this.catalog.intents.find((i) => i.id === intent.type)
FindIntentDef(cat, type) ==
    IF \E i \in DOMAIN cat.intents : cat.intents[i].id = type
    THEN Some(cat.intents[CHOOSE i \in DOMAIN cat.intents :
                             /\ cat.intents[i].id = type
                             /\ \A j \in 1..(i - 1) : cat.intents[j].id # type])
    ELSE None

\* [threw, errors]: threw when reading a member of an absent params payload
validateIntent(s, sch, cat, it) ==
    LET def == FindIntentDef(cat, it.type)
    IN  IF ~IsSome(def)
        THEN [ threw |-> FALSE,
               errors |-> << Err("UNKNOWN_INTENT",
                                 <<"Intent type", it.type, "not found in catalog">>,
                                 None) >> ]
        ELSE IF ~IsSome(it.params) /\ Val(def).parameters # << >>
        THEN [threw |-> TRUE, errors |-> << >>]
        ELSE [ threw |-> FALSE,
               errors |-> ValidateParams(s, sch, Val(def).parameters,
                                         IF IsSome(it.params) THEN Val(it.params)
                                                              ELSE NoParams) ]


(***************************************************************************)
(* applyPatch(document, patch, true, false) of fast-json-patch, on the     *)
(* member `statement`: the operations are applied in order to a copy of    *)
(* the document (its JSON round trip); the first operation that is         *)
(* invalid, or a test that does not hold, throws.                          *)
(***************************************************************************)
Op(op, value) == [op |-> op, path |-> "/statement", value |-> value]

ApplyOperation(doc, o) ==
    CASE o.op = "add" ->
            [threw |-> FALSE, message |-> << >>, doc |-> Attrs(o.value)]
      [] o.op = "replace" ->
            IF doc.statement = Absent
            THEN [threw |-> TRUE, message |-> <<"OPERATION_PATH_UNRESOLVABLE">>,
                  doc |-> doc]
            ELSE [threw |-> FALSE, message |-> << >>, doc |-> Attrs(o.value)]
      [] o.op = "remove" ->
            IF doc.statement = Absent
            THEN [threw |-> TRUE, message |-> <<"OPERATION_PATH_UNRESOLVABLE">>,
                  doc |-> doc]
            ELSE [threw |-> FALSE, message |-> << >>, doc |-> Attrs(Absent)]
      [] o.op = "test" ->
            IF doc.statement = o.value
            THEN [threw |-> FALSE, message |-> << >>, doc |-> doc]
            ELSE [threw |-> TRUE, message |-> <<"TEST_OPERATION_FAILED">>,
                  doc |-> doc]
      [] OTHER ->
            [threw |-> TRUE, message |-> <<"OPERATION_OP_INVALID">>, doc |-> doc]

RECURSIVE ApplyOperations(_, _)
ApplyOperations(doc, patch) ==
    IF patch = << >>
    THEN [threw |-> FALSE, message |-> << >>, newDocument |-> doc]
    ELSE LET r == ApplyOperation(doc, Head(patch))
         IN  IF r.threw
             THEN [threw |-> TRUE, message |-> r.message, newDocument |-> doc]
             ELSE ApplyOperations(r.doc, Tail(patch))

applyPatch(doc, patch) ==
    ApplyOperations(Attrs(JsonValue(doc.statement)), patch)

(***************************************************************************)
(* The mutation handlers.  A handler gets this.ssot (s), the params        *)
(* payload (p), the intent id to stamp, the uuid it would draw (newId) and *)
(* the clock (t).  It yields                                               *)
(*   threw    whether it threw, and then message;                          *)
(*   s        this.ssot as the handler leaves it;                          *)
(*   changes  the change records it returns;                               *)
(*   used     the uuids it drew.                                           *)
(***************************************************************************)
Thrown(message, s, used) ==
    [threw |-> TRUE, message |-> message, s |-> s, changes |-> << >>,
     used |-> used]

Returned(s, changes, used) ==
    [threw |-> FALSE, message |-> << >>, s |-> s, changes |-> changes,
     used |-> used]

Created(t, intentId) == NodeMetadata(t, "user", Some(intentId))

\* an addNode that gives every node it creates the same id
addNodeSameId(s, p, intentId, newId, t) ==
    LET node == MkNode(Uuid(2), Val(p.kind),
                       IF IsSome(p.attrs) THEN Val(p.attrs) ELSE Attrs(Absent),
                       Created(t, intentId))
    IN  Returned([s EXCEPT !.nodes = Append(@, node)],
                 << Change("node_added", Uuid(2), [kind |-> Val(p.kind)]) >>, 1)

addNode(s, p, intentId, newId, t) ==
    LET node == MkNode(newId, Val(p.kind),
                       IF IsSome(p.attrs) THEN Val(p.attrs) ELSE Attrs(Absent),
                       Created(t, intentId))
    IN  Returned([s EXCEPT !.nodes = Append(@, node)],
                 << Change("node_added", newId, [kind |-> Val(p.kind)]) >>, 1)

\* an addEdge that checks the source kind only
addEdgeNoTargetCheck(s, sch, p, intentId, t) ==
    LET kind     == Val(p.edge_kind)
        fromNode == findNode(s, Val(p.from_ref))
        toNode   == findNode(s, Val(p.to_ref))
        edgeDef  == sch.edge_definitions[kind]
        edge     == MkEdge(Val(p.from_ref), kind, Val(p.to_ref),
                           Created(t, intentId))
    IN  IF kind \notin DOMAIN sch.edge_definitions
        THEN Thrown(<<"Edge kind", kind, "not found in schema">>, s, 0)
        ELSE IF ~IsSome(fromNode) \/ ~IsSome(toNode)
        THEN Thrown(<<"Source or target node not found">>, s, 0)
        ELSE IF ~Includes(edgeDef.from, Val(fromNode).kind)
        THEN Thrown(<<"Edge", kind, "cannot start from", Val(fromNode).kind>>, s, 0)
        ELSE Returned([s EXCEPT !.edges = Append(@, edge)],
                      << Change("edge_added",
                                EdgeTarget(Val(p.from_ref), kind, Val(p.to_ref)),
                                [kind |-> kind]) >>, 0)

\* an addEdge that keeps one edge per (from, kind, to)
addEdgeMerging(s, sch, p, intentId, t) ==
    LET kind     == Val(p.edge_kind)
        fromNode == findNode(s, Val(p.from_ref))
        toNode   == findNode(s, Val(p.to_ref))
        edgeDef  == sch.edge_definitions[kind]
        edge     == MkEdge(Val(p.from_ref), kind, Val(p.to_ref),
                           Created(t, intentId))
        there    == \E i \in DOMAIN s.edges :
                        /\ s.edges[i].from = edge.from
                        /\ s.edges[i].kind = edge.kind
                        /\ s.edges[i].to = edge.to
    IN  IF kind \notin DOMAIN sch.edge_definitions
        THEN Thrown(<<"Edge kind", kind, "not found in schema">>, s, 0)
        ELSE IF ~IsSome(fromNode) \/ ~IsSome(toNode)
        THEN Thrown(<<"Source or target node not found">>, s, 0)
        ELSE IF ~Includes(edgeDef.from, Val(fromNode).kind)
        THEN Thrown(<<"Edge", kind, "cannot start from", Val(fromNode).kind>>, s, 0)
        ELSE IF ~Includes(edgeDef.to, Val(toNode).kind)
        THEN Thrown(<<"Edge", kind, "cannot go to", Val(toNode).kind>>, s, 0)
        ELSE Returned(IF there THEN s ELSE [s EXCEPT !.edges = Append(@, edge)],
                      << Change("edge_added",
                                EdgeTarget(Val(p.from_ref), kind, Val(p.to_ref)),
                                [kind |-> kind]) >>, 0)

addEdge(s, sch, p, intentId, t) ==
    LET kind     == Val(p.edge_kind)
        fromNode == findNode(s, Val(p.from_ref))
        toNode   == findNode(s, Val(p.to_ref))
        edgeDef  == sch.edge_definitions[kind]
        edge     == MkEdge(Val(p.from_ref), kind, Val(p.to_ref),
                           Created(t, intentId))
    IN  IF kind \notin DOMAIN sch.edge_definitions
        THEN Thrown(<<"Edge kind", kind, "not found in schema">>, s, 0)
        ELSE IF ~IsSome(fromNode) \/ ~IsSome(toNode)
        THEN Thrown(<<"Source or target node not found">>, s, 0)
        ELSE IF ~Includes(edgeDef.from, Val(fromNode).kind)
        THEN Thrown(<<"Edge", kind, "cannot start from", Val(fromNode).kind>>, s, 0)
        ELSE IF ~Includes(edgeDef.to, Val(toNode).kind)
        THEN Thrown(<<"Edge", kind, "cannot go to", Val(toNode).kind>>, s, 0)
        ELSE Returned([s EXCEPT !.edges = Append(@, edge)],
                      << Change("edge_added",
                                EdgeTarget(Val(p.from_ref), kind, Val(p.to_ref)),
                                [kind |-> kind]) >>, 0)

updateNodeAttrs(s, p, intentId) ==
    LET ref == Val(p.node_ref)
        i   == IndexOfId(s.nodes, ref)
        r   == applyPatch(s.nodes[i].attrs, Val(p.patch))
    IN  IF i = 0
        THEN Thrown(<<"Node", ref, "not found">>, s, 0)
        ELSE IF r.threw
        THEN Thrown(r.message, s, 0)
        ELSE Returned([s EXCEPT !.nodes[i].attrs = r.newDocument],
                      << Change("node_updated", ref,
                                [operations |-> Len(Val(p.patch))]) >>, 0)

\* a deleteNode that takes only the outgoing edges as connected
deleteNodeOutgoingOnly(s, p, intentId) ==
    LET ref            == Val(p.node_ref)
        nodeIndex      == IndexOfId(s.nodes, ref)
        connectedEdges == SelectSeq(s.edges, LAMBDA e : e.from = ref)
        cascade        == IsSome(p.cascade) /\ Val(p.cascade)
    IN  IF nodeIndex = 0
        THEN Thrown(<<"Node", ref, "not found">>, s, 0)
        ELSE IF Len(connectedEdges) > 0 /\ ~cascade
        THEN Thrown(<<"Node", ref, "has", ToString(Len(connectedEdges)),
                      "connected edges. Use cascade=true to delete them.">>, s, 0)
        ELSE Returned(
               [s EXCEPT !.nodes = RemoveAt(@, nodeIndex),
                         !.edges = IF cascade
                                   THEN SelectSeq(@, LAMBDA e : e.from # ref)
                                   ELSE @],
               << Change("node_deleted", ref,
                         [cascade |-> p.cascade,
                          edges_deleted |-> Len(connectedEdges)]) >>, 0)

deleteNode(s, p, intentId) ==
    LET ref            == Val(p.node_ref)
        nodeIndex      == IndexOfId(s.nodes, ref)
        connectedEdges == SelectSeq(s.edges, LAMBDA e : e.from = ref \/ e.to = ref)
        cascade        == IsSome(p.cascade) /\ Val(p.cascade)
    IN  IF nodeIndex = 0
        THEN Thrown(<<"Node", ref, "not found">>, s, 0)
        ELSE IF Len(connectedEdges) > 0 /\ ~cascade
        THEN Thrown(<<"Node", ref, "has", ToString(Len(connectedEdges)),
                      "connected edges. Use cascade=true to delete them.">>, s, 0)
        ELSE Returned(
               [s EXCEPT !.nodes = RemoveAt(@, nodeIndex),
                         !.edges = IF cascade
                                   THEN SelectSeq(@, LAMBDA e : e.from # ref /\ e.to # ref)
                                   ELSE @],
               << Change("node_deleted", ref,
                         [cascade |-> p.cascade,
                          edges_deleted |-> Len(connectedEdges)]) >>, 0)

\* if (value) on an optional string: absent and the empty string are falsy
Truthy(o) == IsSome(o) /\ Val(o) # Empty

\* an addNeed that creates the edge for every expressed_by that is present
addNeedIfPresent(s, p, intentId, newId, t) ==
    LET need == MkNode(newId, "Need", Val(p.attrs), Created(t, intentId))
        s1   == [s EXCEPT !.nodes = Append(@, need)]
        c1   == << Change("node_added", newId, [kind |-> "Need"]) >>
    IN  IF IsSome(p.expressed_by)
        THEN Returned(
               [s1 EXCEPT !.edges =
                   Append(@, MkEdge(Val(p.expressed_by), "expresses", newId,
                                    Created(t, intentId)))],
               Append(c1, Change("edge_added",
                                 EdgeTarget(Val(p.expressed_by), "expresses", newId),
                                 [kind |-> "expresses"])), 1)
        ELSE Returned(s1, c1, 1)

addNeed(s, p, intentId, newId, t) ==
    LET need == MkNode(newId, "Need", Val(p.attrs), Created(t, intentId))
        s1   == [s EXCEPT !.nodes = Append(@, need)]
        c1   == << Change("node_added", newId, [kind |-> "Need"]) >>
    IN  IF Truthy(p.expressed_by)
        THEN Returned(
               [s1 EXCEPT !.edges =
                   Append(@, MkEdge(Val(p.expressed_by), "expresses", newId,
                                    Created(t, intentId)))],
               Append(c1, Change("edge_added",
                                 EdgeTarget(Val(p.expressed_by), "expresses", newId),
                                 [kind |-> "expresses"])), 1)
        ELSE Returned(s1, c1, 1)

\* addRequirementRefinement without the test of the kind of the node found
addRequirementRefinementAnyKind(s, p, intentId, newId, t) ==
    LET ref  == Val(p.need_ref)
        need == findNode(s, ref)
        req  == MkNode(newId, "Requirement", Val(p.requirement_attrs),
                       Created(t, intentId))
        edge == MkEdge(ref, "refinesTo", newId, Created(t, intentId))
    IN  IF ~IsSome(need)
        THEN Thrown(<<"Need", ref, "not found">>, s, 0)
        ELSE Returned(
               [s EXCEPT !.nodes = Append(@, req), !.edges = Append(@, edge)],
               << Change("node_added", newId, [kind |-> "Requirement"]),
                  Change("edge_added", EdgeTarget(ref, "refinesTo", newId),
                         [kind |-> "refinesTo"]) >>, 1)

addRequirementRefinement(s, p, intentId, newId, t) ==
    LET ref  == Val(p.need_ref)
        need == findNode(s, ref)
        req  == MkNode(newId, "Requirement", Val(p.requirement_attrs),
                       Created(t, intentId))
        edge == MkEdge(ref, "refinesTo", newId, Created(t, intentId))
    IN  IF ~IsSome(need) \/ Val(need).kind # "Need"
        THEN Thrown(<<"Need", ref, "not found">>, s, 0)
        ELSE Returned(
               [s EXCEPT !.nodes = Append(@, req), !.edges = Append(@, edge)],
               << Change("node_added", newId, [kind |-> "Requirement"]),
                  Change("edge_added", EdgeTarget(ref, "refinesTo", newId),
                         [kind |-> "refinesTo"]) >>, 1)

\* the intent types executeIntentType has a case for
Handled ==
    { "I.AddNode", "I.AddEdge", "I.UpdateNodeAttrs", "I.DeleteNode",
      "I.AddNeed", "I.AddRequirementRefinement" }

\* the default case of the switch
NotImplemented(s, it) ==
    Thrown(<<"Intent type", it.type, "not yet implemented">>, s, 0)

\* the switch of executeIntentType; a handler that reads a member of an
\* absent params payload throws a TypeError
executeIntentType(s, sch, it, newId, t) ==
    LET intentId == Val(it.metadata).intent_id
        p        == Val(it.params)
    IN  IF it.type \notin Handled
        THEN NotImplemented(s, it)
        ELSE IF ~IsSome(it.params)
        THEN Thrown(<<"TypeError">>, s,
                    IF it.type \in {"I.AddNode", "I.AddNeed"} THEN 1 ELSE 0)
        ELSE CASE it.type = "I.AddNode" -> addNode(s, p, intentId, newId, t)
               [] it.type = "I.AddEdge" -> addEdge(s, sch, p, intentId, t)
               [] it.type = "I.UpdateNodeAttrs" -> updateNodeAttrs(s, p, intentId)
               [] it.type = "I.DeleteNode" -> deleteNode(s, p, intentId)
               [] it.type = "I.AddNeed" -> addNeed(s, p, intentId, newId, t)
               [] it.type = "I.AddRequirementRefinement" ->
                      addRequirementRefinement(s, p, intentId, newId, t)

(***************************************************************************)
(* Construction and initialize                                             *)
(***************************************************************************)
Init ==
    /\ \E d \in Deployments :
          /\ options = d.options
          /\ ssotFile = d.ssotFile
          /\ catalogFile = d.catalogFile
    /\ historyFiles = << >>
    /\ ssot = None
    /\ schema = None
    /\ catalog = None
    /\ uuidCount = 0
    /\ clock = 0
    /\ calls = 0
    /\ intent = None
    /\ pre = None
    /\ result = NoResult
    /\ ended = "none"
    /\ inflight = << >>
    /\ held = None
    /\ criteriaDir = << >>
    /\ rules = << >>
    /\ loads = 0
    /\ evaluations = 0
    /\ evaluation = None
    /\ previous = None
    /\ qualityGate = None
    /\ gateCalls = 0
    /\ gateCheck = None
    /\ LintConstructed

\* initialize(): load the three documents, build the indexes when the SSoT
\* document has none
Initialize ==
    /\ ssot = None
    /\ ssot' = Some(IF IsSome(ssotFile.indexes) THEN ssotFile
                                                ELSE rebuildIndexes(ssotFile))
    /\ schema' = Some(SchemaDoc)
    /\ catalog' = Some(catalogFile)
    /\ UNCHANGED << options, ssotFile, catalogFile, historyFiles, uuidCount,
                    clock, calls, intent, pre, result, ended >>
    /\ UNCHANGED << criteriaVars, lintVars, inflight, held >>

(***************************************************************************)
(* save and recordHistory                                                  *)
(***************************************************************************)
\* what fs.writeFile(ssotPath, JSON.stringify(this.ssot)) leaves in the file
save(s) == JsonClone(s)

\* JSON.stringify of a params payload, read back
JsonAttrs(a) ==
    IF IsSome(a) THEN Some(Attrs(JsonValue(Val(a).statement))) ELSE None

JsonParams(params) ==
    IF IsSome(params)
    THEN Some([Val(params) EXCEPT !.attrs = JsonAttrs(@),
                                  !.requirement_attrs = JsonAttrs(@)])
    ELSE None

\* a recordHistory that names the file by the id in the intent's metadata
recordHistoryByMetadataId(files, it, intentId, timestamp) ==
    LET name == Val(it.metadata).intent_id
        historyEntry == [ intent_id   |-> name,
                          timestamp   |-> timestamp,
                          intent_type |-> it.type,
                          params      |-> JsonParams(it.params),
                          metadata    |-> it.metadata ]
    IN  IF name \in DOMAIN files
        THEN [files EXCEPT ![name] = historyEntry]
        ELSE files @@ (name :> historyEntry)

\* the history files after writeFile(<historyDir>/<intentId>.json, entry)
recordHistory(files, it, intentId, timestamp) ==
    LET historyEntry == [ intent_id   |-> intentId,
                          timestamp   |-> timestamp,
                          intent_type |-> it.type,
                          params      |-> JsonParams(it.params),
                          metadata    |-> it.metadata ]
    IN  IF intentId \in DOMAIN files
        THEN [files EXCEPT ![intentId] = historyEntry]
        ELSE files @@ (intentId :> historyEntry)

(***************************************************************************)
(* execute                                                                 *)
(***************************************************************************)
\* the state a call leaves, the result it gives and where it ended:
\*   "rejected"       an exception left execute (the promise rejects)
\*   "invalid"        validation found errors
\*   "handler_threw"  the mutation handler threw
\*   "save_threw"     save() threw
\*   "history_threw"  recordHistory() threw
\*   "committed"      the call returned success
\* what one call leaves; left is the object this.ssot referred to when the
\* call started, as it is when the call returns
Outcome(s, it, res, file, hist, used, phase) ==
    [ssot |-> s, intent |-> it, result |-> res, ssotFile |-> file,
     historyFiles |-> hist, used |-> used, ended |-> phase, left |-> s]

Rejected(it, intentId) ==
    Outcome(ssot, it, MkResult("rejected", FALSE, intentId, None, None, None),
            ssotFile, historyFiles, 1, "rejected")

\* a validation failure that has already stamped the SSoT
InvalidStamped(it, intentId, timestamp, errors) ==
    Outcome(Some([Val(ssot) EXCEPT !.meta.last_updated = timestamp]), it,
            MkResult("returned", FALSE, intentId, None, Some(errors), None),
            ssotFile, historyFiles, 1, "invalid")

\* the return on validation errors
Invalid(it, intentId, timestamp, errors) ==
    Outcome(ssot, it,
            MkResult("returned", FALSE, intentId, None, Some(errors), None),
            ssotFile, historyFiles, 1, "invalid")

Failure(snapshot, intentId, message) ==
    MkResult("returned", FALSE, intentId, None,
             Some(<< Err("EXECUTION_FAILED", message, None) >>),
             Some([reason |-> "Execution error",
                   original_state_snapshot |-> snapshot]))

\* the catch block: this.ssot = snapshot, and the failure result
Rollback(live, snapshot, it, intentId, message, file, used, phase) ==
    [Outcome(Some(snapshot), it, Failure(snapshot, intentId, message), file,
             historyFiles, used, phase) EXCEPT !.left = Some(live)]

\* the try block after the handler returned: stamp, reindex, save, record
Commit(snapshot, h, it, intentId, timestamp, io) ==
    LET s2 == rebuildIndexes([h.s EXCEPT !.meta.last_updated = timestamp])
        file2 == IF options.autoSave THEN save(s2) ELSE ssotFile
    IN  IF options.autoSave /\ io = "save_fails"
        THEN Rollback(s2, snapshot, it, intentId, <<"EIO">>, ssotFile,
                      1 + h.used, "save_threw")
        ELSE IF options.historyDir /\ io = "history_fails"
        THEN Rollback(s2, snapshot, it, intentId, <<"EIO">>, file2,
                      1 + h.used, "history_threw")
        ELSE Outcome(Some(s2), it,
                     MkResult("returned", TRUE, intentId, Some(h.changes),
                              None, None),
                     file2,
                     IF options.historyDir
                     THEN recordHistory(historyFiles, it, intentId, timestamp)
                     ELSE historyFiles,
                     1 + h.used, "committed")

\* how the file system may answer the writes of one call: "ok", or a
\* failure of a write the options ask for; a write that fails leaves the
\* files as they were
IoOf(opts) ==
    {"ok"} \cup (IF opts.autoSave THEN {"save_fails"} ELSE {})
           \cup (IF opts.historyDir THEN {"history_fails"} ELSE {})

\* one whole call of execute(it0) at clock reading timestamp: the outcomes
\* it can have, one for each answer of the file system it depends on
execute(it0, timestamp) ==
    LET intentId == Uuid(uuidCount + 1)
        it == IF IsSome(it0.metadata) THEN it0
              ELSE [it0 EXCEPT !.metadata =
                       Some(IntentMetadata(intentId, timestamp, "user",
                                           Val(ssot).meta.collaboration_mode))]
        v  == validateIntent(Val(ssot), Val(schema), Val(catalog), it)
        snapshot == JsonClone(Val(ssot))
        h  == executeIntentType(Val(ssot), Val(schema), it,
                                Uuid(uuidCount + 2), timestamp)
    IN  IF ~IsSome(it0.metadata) /\ ~IsSome(ssot)
        THEN {Rejected(it0, intentId)}
        ELSE IF ~IsSome(catalog)
        THEN {Rejected(it, intentId)}
        ELSE IF v.threw
        THEN {Rejected(it, intentId)}
        ELSE IF Len(v.errors) > 0
        THEN {Invalid(it, intentId, timestamp, v.errors)}
        ELSE IF h.threw
        THEN {Rollback(h.s, snapshot, it, intentId, h.message, ssotFile,
                       1 + h.used, "handler_threw")}
        ELSE {Commit(snapshot, h, it, intentId, timestamp, io) :
                io \in IoOf(options)}

(***************************************************************************)
(* The intents a caller submits                                            *)
(***************************************************************************)
NodeIds(s) == {s.nodes[i].id : i \in DOMAIN s.nodes}

\* ids of the nodes of the graph (none before initialize)
Ids == IF IsSome(ssot) THEN NodeIds(Val(ssot)) ELSE {}

\* references a caller may give: every node of the graph and one id that
\* names none
Refs == Ids \cup {Ghost}

Opt(S) == {None} \cup {Some(v) : v \in S}

Patches ==
    { << Op("replace", "y") >>,
      << Op("remove", "") >>,
      << Op("test", "x"), Op("replace", "y") >>,
      << Op("add", "y"), Op("test", "x") >>,
      << Op("add", "y"), Op("move", "") >> }

EdgeParams(F, K, G) ==
    { [NoParams EXCEPT !.from_ref = f, !.edge_kind = k, !.to_ref = g] :
        f \in F, k \in K, g \in G }

ParamsOf(type) ==
    CASE type = "I.AddNode" ->
           { [NoParams EXCEPT !.kind = k, !.attrs = a] :
               k \in Opt({"Need", "Gadget"}),
               a \in Opt({Attrs("x"), Attrs(NotANumber)}) }
      [] type = "I.AddEdge" ->
           \* the kinds with a definition between any two nodes, the other
           \* kinds on one node, and the defects of each parameter
           EdgeParams(Opt(Ids), {Some("refinesTo"), Some("relatesTo")}, Opt(Ids))
           \cup { [NoParams EXCEPT !.from_ref = Some(r), !.edge_kind = Some(k),
                                   !.to_ref = Some(r)] :
                    r \in Ids, k \in {"conflictsWith", "bogus"} }
           \cup EdgeParams(Opt({Ghost}), Opt({"refinesTo", "bogus"}), Opt({Ghost}))
      [] type = "I.DeleteEdge" ->
           EdgeParams(Opt({Ghost}) \cup Opt(Ids), {Some("refinesTo")}, {Some(Ghost)})
           \cup { [NoParams EXCEPT !.from_ref = Some(r), !.edge_kind = Some("refinesTo"),
                                   !.to_ref = Some(r)] : r \in Ids }
      [] type = "I.UpdateNodeAttrs" ->
           { [NoParams EXCEPT !.node_ref = Some(r), !.patch = Some(q)] :
               r \in Ids, q \in Patches }
           \cup { [NoParams EXCEPT !.node_ref = r, !.patch = q] :
                    r \in Opt({Ghost}), q \in Opt({<< Op("replace", "y") >>}) }
      [] type = "I.DeleteNode" ->
           { [NoParams EXCEPT !.node_ref = r, !.cascade = c] :
               r \in Opt(Refs), c \in Opt(BOOLEAN) }
      [] type = "I.AddNeed" ->
           { [NoParams EXCEPT !.attrs = a, !.expressed_by = r] :
               a \in Opt({Attrs("x")}), r \in Opt(Refs \cup {Empty}) }
      [] type = "I.AddRequirementRefinement" ->
           { [NoParams EXCEPT !.need_ref = r, !.requirement_attrs = a] :
               r \in Opt(Refs), a \in Opt({Attrs("x")}) }
      [] OTHER -> {NoParams}

IntentTypes ==
    Handled \cup {"I.DeleteEdge", "I.ToggleEdge", "I.Teleport"}

CallerMetadata == IntentMetadata("caller-1", 0, "ai", "manual")

\* lines 132-147: the catch block assigns the snapshot to this.ssot and
\* returns the same object as rollback.original_state_snapshot.  held is
\* the object a caller kept from the first call that rolled back: what it
\* held when it was returned, what it reads now, and whether it still is
\* the object this.ssot refers to, which the calls that follow change in
\* place until one of them rolls back and assigns this.ssot anew
Kept(o) ==
    IF IsSome(held)
    THEN IF Val(held).shared
         THEN Some([Val(held) EXCEPT !.reads = Val(o.left),
                                     !.shared = ~IsSome(o.result.rollback)])
         ELSE held
    ELSE IF IsSome(o.result.rollback)
    THEN Some([ returned |-> Val(o.result.rollback).original_state_snapshot,
                reads    |-> Val(o.result.rollback).original_state_snapshot,
                shared   |-> TRUE ])
    ELSE None

\* a caller awaits execute(intent)
Execute ==
    /\ calls < MaxCalls
    /\ ~IsSome(intent)
    /\ \E type \in IntentTypes, m \in Opt({CallerMetadata}) :
         \E p \in Opt(ParamsOf(type)) :
           \E o \in execute(MkIntent(type, p, m), clock + 1) :
                /\ ssot' = o.ssot
                /\ intent' = Some(o.intent)
                /\ result' = o.result
                /\ ssotFile' = o.ssotFile
                /\ historyFiles' = o.historyFiles
                /\ uuidCount' = uuidCount + o.used
                /\ ended' = o.ended
                /\ held' = Kept(o)
    /\ pre' = Some([ssot |-> ssot, ssotFile |-> ssotFile,
                    historyFiles |-> historyFiles])
    /\ clock' = clock + 1
    /\ calls' = calls + 1
    /\ UNCHANGED << options, catalogFile, schema, catalog >>
    /\ UNCHANGED << criteriaVars, lintVars, inflight >>

\* the caller has taken the result; the record of the call is dropped
Settle ==
    /\ IsSome(intent)
    /\ intent' = None
    /\ pre' = None
    /\ result' = NoResult
    /\ ended' = "none"
    /\ UNCHANGED << options, ssotFile, catalogFile, historyFiles, ssot, schema,
                    catalog, uuidCount, clock, calls >>
    /\ UNCHANGED << criteriaVars, lintVars, inflight, held >>

Next == Initialize \/ Execute \/ Settle

Spec == Init /\ [][Next]_vars

(***************************************************************************)
(* execute, one stretch between awaits at a time                           *)
(*                                                                         *)
(* execute is an async function: it runs to its first await when it is     *)
(* called and is resumed after each await settles.  A call that is         *)
(* suspended is in inflight, in the order the calls were suspended, with   *)
(*   pc  the await it is suspended at: "validated" (await validateIntent), *)
(*       "mutated" (await executeIntentType), "saving" (await save),       *)
(*       "recording" (await recordHistory);                                *)
(*   and the locals of the call: intent, intentId, timestamp, the          *)
(*   validation errors, snapshot, the handler's outcome h, and the text    *)
(*   save() handed to fs.writeFile (written).                              *)
(***************************************************************************)
Suspended(pc, it, intentId, timestamp, errors) ==
    [ pc |-> pc, intent |-> it, intentId |-> intentId, timestamp |-> timestamp,
      errors |-> errors, snapshot |-> None, h |-> None, written |-> None ]

\* awaits of promises that are already settled resume in the order they
\* were reached and before any file operation completes; file operations
\* complete in any order
OnMicrotask(c) == c.pc \in {"validated", "mutated"}

Resumable(i) ==
    IF OnMicrotask(inflight[i])
    THEN \A j \in 1..(i - 1) : ~OnMicrotask(inflight[j])
    ELSE \A j \in DOMAIN inflight : ~OnMicrotask(inflight[j])

\* lines 80-95: the call up to await validateIntent
Begin ==
    /\ calls < MaxCalls
    /\ \E type \in IntentTypes, m \in {None} :
         \E p \in Opt(ParamsOf(type)) :
            LET it0 == MkIntent(type, p, m)
                intentId == Uuid(uuidCount + 1)
                timestamp == clock + 1
                it == IF IsSome(m) THEN it0
                      ELSE [it0 EXCEPT !.metadata =
                              Some(IntentMetadata(intentId, timestamp, "user",
                                      Val(ssot).meta.collaboration_mode))]
            IN  IF \/ ~IsSome(m) /\ ~IsSome(ssot)
                   \/ ~IsSome(catalog)
                   \/ validateIntent(Val(ssot), Val(schema), Val(catalog), it).threw
                THEN /\ intent' = Some(IF IsSome(ssot) THEN it ELSE it0)
                     /\ result' = MkResult("rejected", FALSE, intentId,
                                           None, None, None)
                     /\ ended' = "rejected"
                     /\ inflight' = inflight
                ELSE /\ inflight' =
                          Append(inflight,
                                 Suspended("validated", it, intentId, timestamp,
                                     validateIntent(Val(ssot), Val(schema),
                                                    Val(catalog), it).errors))
                     /\ UNCHANGED << intent, result, ended >>
    /\ uuidCount' = uuidCount + 1
    /\ clock' = clock + 1
    /\ calls' = calls + 1
    /\ UNCHANGED << options, ssotFile, catalogFile, historyFiles, ssot, schema,
                    catalog, pre >>
    /\ UNCHANGED << criteriaVars, lintVars, held >>

\* the call at inflight[i] returns res
Return(i, res, phase) ==
    /\ inflight' = RemoveAt(inflight, i)
    /\ intent' = Some(inflight[i].intent)
    /\ result' = res
    /\ ended' = phase

\* the call at inflight[i] is suspended again, as c
Suspend(i, c) ==
    /\ inflight' = Append(RemoveAt(inflight, i), c)
    /\ UNCHANGED << intent, result, ended >>

\* lines 96-109: the return on validation errors, else the snapshot and the
\* mutation handler, up to await executeIntentType
Mutate ==
    /\ \E i \in DOMAIN inflight :
          LET c == inflight[i]
              h == executeIntentType(Val(ssot), Val(schema), c.intent,
                                     Uuid(uuidCount + 1), c.timestamp)
          IN  /\ Resumable(i)
              /\ c.pc = "validated"
              /\ IF Len(c.errors) > 0
                 THEN /\ Return(i, MkResult("returned", FALSE, c.intentId, None,
                                            Some(c.errors), None), "invalid")
                      /\ UNCHANGED << ssot, uuidCount >>
                 ELSE /\ ssot' = Some(h.s)
                      /\ uuidCount' = uuidCount + h.used
                      /\ Suspend(i, [c EXCEPT !.pc = "mutated",
                                              !.snapshot = Some(JsonClone(Val(ssot))),
                                              !.h = Some(h)])
    /\ UNCHANGED << options, ssotFile, catalogFile, historyFiles, schema,
                    catalog, clock, calls, pre >>
    /\ UNCHANGED << criteriaVars, lintVars, held >>

\* the catch block of the call at inflight[i]
Catch(i, message, phase) ==
    /\ ssot' = inflight[i].snapshot
    /\ Return(i, Failure(Val(inflight[i].snapshot), inflight[i].intentId,
                         message), phase)

\* lines 111-125 and 132-149: after the handler, the stamp and the reindex
\* up to the first write the options ask for
Finish ==
    /\ \E i \in DOMAIN inflight :
          LET c == inflight[i]
          IN  /\ Resumable(i)
              /\ c.pc = "mutated"
              /\ IF Val(c.h).threw
                 THEN Catch(i, Val(c.h).message, "handler_threw")
                 ELSE /\ ssot' = Some(rebuildIndexes(
                                    [Val(ssot) EXCEPT
                                        !.meta.last_updated = c.timestamp]))
                      /\ IF options.autoSave
                         THEN Suspend(i, [c EXCEPT !.pc = "saving",
                                                  !.written = Some(save(Val(ssot')))])
                         ELSE IF options.historyDir
                         THEN Suspend(i, [c EXCEPT !.pc = "recording"])
                         ELSE Return(i, MkResult("returned", TRUE, c.intentId,
                                                 Some(Val(c.h).changes), None,
                                                 None), "committed")
    /\ UNCHANGED << options, ssotFile, catalogFile, historyFiles, schema,
                    catalog, uuidCount, clock, calls, pre >>
    /\ UNCHANGED << criteriaVars, lintVars, held >>

\* lines 118-125: fs.writeFile of save() completes or fails
Saved ==
    /\ \E i \in DOMAIN inflight, io \in {"ok", "save_fails"} :
          LET c == inflight[i]
          IN  /\ Resumable(i)
              /\ c.pc = "saving"
              /\ IF io = "save_fails"
                 THEN /\ Catch(i, <<"EIO">>, "save_threw")
                      /\ UNCHANGED ssotFile
                 ELSE /\ ssotFile' = Val(c.written)
                      /\ UNCHANGED ssot
                      /\ IF options.historyDir
                         THEN Suspend(i, [c EXCEPT !.pc = "recording"])
                         ELSE Return(i, MkResult("returned", TRUE, c.intentId,
                                                 Some(Val(c.h).changes), None,
                                                 None), "committed")
    /\ UNCHANGED << options, catalogFile, historyFiles, schema, catalog,
                    uuidCount, clock, calls, pre >>
    /\ UNCHANGED << criteriaVars, lintVars, held >>

\* lines 123-130: the writes of recordHistory() complete or fail
Recorded ==
    /\ \E i \in DOMAIN inflight, io \in {"ok", "history_fails"} :
          LET c == inflight[i]
          IN  /\ Resumable(i)
              /\ c.pc = "recording"
              /\ IF io = "history_fails"
                 THEN /\ Catch(i, <<"EIO">>, "history_threw")
                      /\ UNCHANGED historyFiles
                 ELSE /\ historyFiles' = recordHistory(historyFiles, c.intent,
                                                       c.intentId, c.timestamp)
                      /\ UNCHANGED ssot
                      /\ Return(i, MkResult("returned", TRUE, c.intentId,
                                            Some(Val(c.h).changes), None, None),
                                "committed")
    /\ UNCHANGED << options, ssotFile, catalogFile, schema, catalog,
                    uuidCount, clock, calls, pre >>
    /\ UNCHANGED << criteriaVars, lintVars, held >>

OverlapNext == Initialize \/ Begin \/ Mutate \/ Finish \/ Saved \/ Recorded

SpecOverlap == Init /\ [][OverlapNext]_vars

(***************************************************************************)
(* The last call, as the properties below read it                          *)
(***************************************************************************)
Called   == IsSome(intent)
CallType == Val(intent).type
\* this.ssot when the call started (None before initialize)
PreSsot  == Val(pre).ssot
\* how far the call got
PassedValidation ==
    ended \in {"handler_threw", "save_threw", "history_threw", "committed"}
Threw == ended \in {"handler_threw", "save_threw", "history_threw"}
ErrorCodes == [i \in DOMAIN Val(result.errors) |-> Val(result.errors)[i].code]

(***************************************************************************)
(* Properties of execute                                                   *)
(***************************************************************************)
\* C1 (atomicity): when an intent passed validation and its handler, save or
\* recordHistory threw, this.ssot (nodes, edges, indexes, meta) is what it
\* was when the call started, and the result is success=false with exactly
\* one error, of code EXECUTION_FAILED.
C1_Atomicity ==
    Threw =>
        /\ ssot = PreSsot
        /\ result.kind = "returned"
        /\ ~result.success
        /\ IsSome(result.errors)
        /\ ErrorCodes = <<"EXECUTION_FAILED">>

\* C2 (validation precedes mutation): when validateIntent yields at least
\* one error, execute returns success=false with exactly those errors, no
\* handler runs, nothing is written to the SSoT file or the history, and
\* this.ssot is what it was when the call started.
C2_ValidationPrecedesMutation ==
    (Called /\ IsSome(PreSsot)) =>
        LET v == validateIntent(Val(PreSsot), Val(schema), Val(catalog),
                                Val(intent))
        IN  (~v.threw /\ Len(v.errors) > 0) =>
                /\ ended = "invalid"
                /\ result.kind = "returned"
                /\ ~result.success
                /\ result.errors = Some(v.errors)
                /\ result.changes = None
                /\ result.rollback = None
                /\ ssot = PreSsot
                /\ ssotFile = Val(pre).ssotFile
                /\ historyFiles = Val(pre).historyFiles

\* an intent with two errors was refused by an engine that saves and records
C2_Witness ==
    /\ ended = "invalid"
    /\ Len(Val(result.errors)) >= 2
    /\ options.autoSave /\ options.historyDir
    /\ ssot = PreSsot

\* C3 (execute is total): every call of execute resolves to an IntentResult.
C3_ExecuteIsTotal == Called => result.kind = "returned"

\* C4 (no silent no-op): an intent of a cataloged type without handler that
\* passed validation fails with one EXECUTION_FAILED error saying the type
\* is not implemented, carries a rollback snapshot, and leaves this.ssot
\* (nodes, edges, indexes, meta) as it was.
C4_UnhandledTypeFails ==
    (PassedValidation /\ CallType \notin Handled) =>
        /\ result.kind = "returned"
        /\ ~result.success
        /\ result.changes = None
        /\ result.errors =
              Some(<< Err("EXECUTION_FAILED",
                          <<"Intent type", CallType, "not yet implemented">>,
                          None) >>)
        /\ IsSome(result.rollback)
        /\ ssot = PreSsot

(***************************************************************************)
(* Properties of validateIntent                                            *)
(***************************************************************************)
Range(q) == {q[i] : i \in DOMAIN q}
CallParams == IF IsSome(Val(intent).params) THEN Val(Val(intent).params)
                                            ELSE NoParams

\* the code of the violation of one declared parameter, "" when there is none
Violation(s, sch, def, value) ==
    IF ~IsSome(value)
    THEN (IF def.required THEN "MISSING_PARAMETER" ELSE "")
    ELSE IF def.type = "NodeRef" /\ Val(value) \notin NodeIds(s)
    THEN "INVALID_NODE_REF"
    ELSE IF def.type = "NodeKind" /\ Val(value) \notin Range(sch.node_kinds)
    THEN "INVALID_NODE_KIND"
    ELSE IF def.type = "EdgeKind" /\ Val(value) \notin Range(sch.edge_kinds)
    THEN "INVALID_EDGE_KIND"
    ELSE ""

\* <<code, field>> of every declared parameter in violation, in declaration
\* order
ExpectedErrors(s, sch, defs, params) ==
    LET bad == SelectSeq(defs,
                 LAMBDA d : Violation(s, sch, d, params[d.name]) # "")
    IN  [i \in DOMAIN bad |->
           <<Violation(s, sch, bad[i], params[bad[i].name]), bad[i].name>>]

ReportedErrors ==
    [i \in DOMAIN Val(result.errors) |->
       <<Val(result.errors)[i].code, Val(Val(result.errors)[i].field)>>]

\* C5 (validation reports every violation): for a type of the catalog the
\* errors returned are one per declared parameter in violation, with the
\* code of that violation, in declaration order (and the intent passes
\* validation exactly when there is none); for a type not in the catalog
\* the errors are exactly one UNKNOWN_INTENT.
C5_AllViolationsReported ==
    (Called /\ IsSome(PreSsot) /\ result.kind = "returned") =>
        LET def == FindIntentDef(Val(catalog), CallType)
            expected == ExpectedErrors(Val(PreSsot), Val(schema),
                                       Val(def).parameters, CallParams)
        IN  IF ~IsSome(def)
            THEN /\ ended = "invalid"
                 /\ ErrorCodes = <<"UNKNOWN_INTENT">>
                 /\ Val(result.errors)[1].field = None
            ELSE IF expected = << >>
            THEN PassedValidation
            ELSE /\ ended = "invalid"
                 /\ ReportedErrors = expected

\* three parameters of one intent in violation, each in its own way
C5_Witness ==
    /\ ended = "invalid"
    /\ ErrorCodes = <<"MISSING_PARAMETER", "INVALID_EDGE_KIND", "INVALID_NODE_REF">>

(***************************************************************************)
(* Properties of the handlers                                              *)
(***************************************************************************)
\* the graph before and after the last call
G0 == Val(PreSsot)
G1 == Val(ssot)
IdsOf(nodes) == [i \in DOMAIN nodes |-> nodes[i].id]
KindOf(s, id) == (CHOOSE n \in Range(s.nodes) : n.id = id).kind
Triple(e) == <<e.from, e.kind, e.to>>
\* the number of edges of s with an end at ref
Degree(s, ref) ==
    Cardinality({i \in DOMAIN s.edges : s.edges[i].from = ref \/ s.edges[i].to = ref})

DeleteBlocked ==
    /\ Called /\ CallType = "I.DeleteNode" /\ IsSome(PreSsot)
    /\ IsSome(Val(intent).params)
    /\ IsSome(CallParams.node_ref)
    /\ Val(CallParams.node_ref) \in NodeIds(G0)
    /\ CallParams.cascade \in {None, Some(FALSE)}
    /\ Degree(G0, Val(CallParams.node_ref)) >= 1

\* the result has a change record that reports edges_deleted = n
ReportsEdgesDeleted(n) ==
    /\ IsSome(result.changes)
    /\ \E i \in DOMAIN Val(result.changes) :
          Val(result.changes)[i].details.edges_deleted = n

\* C7 as claimed: the blocked delete fails, deletes nothing (the node and
\* its n edges are still there), and the failure result reports
\* edges_deleted = n.
C7_BlockedDeleteReportsEdgesDeleted ==
    DeleteBlocked =>
        /\ ~result.success
        /\ IdsOf(G1.nodes) = IdsOf(G0.nodes)
        /\ G1.edges = G0.edges
        /\ ReportsEdgesDeleted(Degree(G0, Val(CallParams.node_ref)))

\* C7 (amended): the blocked delete fails, deletes nothing (every node and
\* every edge is still there, in place), and its result has no change
\* record and one EXECUTION_FAILED error whose message states n, the number
\* of connected edges.
C7_BlockedDeleteStatesCount ==
    DeleteBlocked =>
        LET ref == Val(CallParams.node_ref)
        IN  /\ result.kind = "returned"
            /\ ~result.success
            /\ IdsOf(G1.nodes) = IdsOf(G0.nodes)
            /\ G1.edges = G0.edges
            /\ ref \in NodeIds(G1)
            /\ Degree(G1, ref) = Degree(G0, ref)
            /\ result.changes = None
            /\ result.errors =
                 Some(<< Err("EXECUTION_FAILED",
                             <<"Node", ref, "has", ToString(Degree(G0, ref)),
                               "connected edges. Use cascade=true to delete them.">>,
                             None) >>)

\* a node with two connected edges was not deleted
C7_Witness ==
    /\ DeleteBlocked
    /\ Degree(G0, Val(CallParams.node_ref)) = 2
    /\ ended = "handler_threw"

\* I.DeleteNode with cascade=true of a node of the graph
DeleteCascade ==
    /\ Called /\ CallType = "I.DeleteNode" /\ IsSome(PreSsot)
    /\ IsSome(Val(intent).params)
    /\ IsSome(CallParams.node_ref)
    /\ Val(CallParams.node_ref) \in NodeIds(G0)
    /\ CallParams.cascade = Some(TRUE)

\* C8 (cascade delete): I.DeleteNode with cascade=true of an existing node
\* is not refused by the handler; when it succeeds, exactly that node and
\* exactly the edges with an end at it are gone, the other nodes and edges
\* keep their order, and the one change record is node_deleted with
\* edges_deleted = the number of edges removed.
C8_CascadeDelete ==
    DeleteCascade =>
        LET ref == Val(CallParams.node_ref)
        IN  /\ ended \in {"committed", "save_threw", "history_threw"}
            /\ ended = "committed" =>
                 /\ result.success
                 /\ G1.nodes = SelectSeq(G0.nodes, LAMBDA n : n.id # ref)
                 /\ Len(G1.nodes) = Len(G0.nodes) - 1
                 /\ G1.edges = SelectSeq(G0.edges,
                                 LAMBDA e : e.from # ref /\ e.to # ref)
                 /\ result.changes =
                      Some(<< Change("node_deleted", ref,
                                [cascade |-> Some(TRUE),
                                 edges_deleted |->
                                    Len(G0.edges) - Len(G1.edges)]) >>)
                 /\ Len(G0.edges) - Len(G1.edges) = Degree(G0, ref)

\* a node with a self-loop and two more edges was deleted with its three
\* edges
C8_Witness ==
    /\ DeleteCascade
    /\ ended = "committed"
    /\ \E i \in DOMAIN G0.edges :
          /\ G0.edges[i].from = Val(CallParams.node_ref)
          /\ G0.edges[i].to = Val(CallParams.node_ref)
    /\ Len(G0.edges) - Len(G1.edges) = 3

\* C9 (referential integrity at creation): every edge appended by a
\* successful I.AddEdge, I.AddNeed or I.AddRequirementRefinement joins two
\* nodes of the graph.
C9_ReferentialIntegrityAtCreation ==
    (ended = "committed"
       /\ CallType \in {"I.AddEdge", "I.AddNeed", "I.AddRequirementRefinement"}) =>
        \A i \in (Len(G0.edges) + 1)..Len(G1.edges) :
            /\ G1.edges[i].from \in NodeIds(G1)
            /\ G1.edges[i].to \in NodeIds(G1)

(***************************************************************************)
(* Properties of the indexes                                               *)
(***************************************************************************)
\* the indexes as a projection of nodes and edges
Projection(s) ==
    [ by_kind |->
        [k \in {n.kind : n \in Range(s.nodes)} |->
           IdsOf(SelectSeq(s.nodes, LAMBDA n : n.kind = k))],
      incoming_edges |->
        [id \in {e.to : e \in Range(s.edges)} |->
           SelectSeq(s.edges, LAMBDA e : e.to = id)],
      outgoing_edges |->
        [id \in {e.from : e \in Range(s.edges)} |->
           SelectSeq(s.edges, LAMBDA e : e.from = id)] ]

\* C10 (indexes after success): after an execute that returned success the
\* indexes are the projection of the current nodes and edges: by_kind[k]
\* lists the ids of the nodes of kind k in node order and has no key for a
\* kind without node, outgoing_edges[n] and incoming_edges[n] list the edges
\* from and to n in edge order.
C10_IndexesAreProjection ==
    ended = "committed" =>
        /\ result.success
        /\ G1.indexes = Some(Projection(G1))

\* a graph loaded with stale indexes was changed, and its indexes rebuilt
C10_Witness ==
    /\ ended = "committed"
    /\ G0.indexes # Some(Projection(G0))
    /\ G1.nodes # G0.nodes
    /\ G1.indexes = Some(Projection(G1))

(***************************************************************************)
(* Properties of persistence and history                                   *)
(***************************************************************************)
\* the SSoT file and the history files when the last call started
PreFile == Val(pre).ssotFile
PreHistory == Val(pre).historyFiles
Returns == Called /\ result.kind = "returned"

\* C11 (persistence only on success): with autoSave, after an execute that
\* returned success=false the SSoT file is what it was before the call, and
\* after one that returned success=true the file is the serialization of
\* this.ssot.
C11_PersistedOnlyOnSuccess ==
    (Returns /\ options.autoSave) =>
        IF result.success
        THEN ssotFile = save(G1)
        ELSE ssotFile = PreFile

\* C12 (append-only history): with a history directory, a call that returned
\* success=true added exactly one record, named by the intent_id of its
\* result; a call that did not added none; and every record that was there
\* before the call is there after it, unchanged.
C12_HistoryAppendOnly ==
    (Called /\ options.historyDir) =>
        /\ \A id \in DOMAIN PreHistory :
              /\ id \in DOMAIN historyFiles
              /\ historyFiles[id] = PreHistory[id]
        /\ IF result.success
           THEN /\ result.intent_id \notin DOMAIN PreHistory
                /\ DOMAIN historyFiles = DOMAIN PreHistory \cup {result.intent_id}
           ELSE DOMAIN historyFiles = DOMAIN PreHistory

\* a second successful intent was recorded next to the record of the first
C12_Witness ==
    /\ Called /\ options.historyDir
    /\ result.success
    /\ Cardinality(DOMAIN PreHistory) = 1
    /\ Cardinality(DOMAIN historyFiles) = 2
    /\ result.intent_id \in DOMAIN historyFiles

\* C13 (one intent, one id): after a successful execute the intent_id of the
\* result is the id of the intent's metadata (the caller's when the caller
\* gave metadata), it is the id stamped into every node and edge the intent
\* created, and it is the id inside and naming the history record.
C13_OneIntentOneId ==
    (Called /\ result.success) =>
        /\ result.intent_id = Val(Val(intent).metadata).intent_id
        /\ \A i \in (Len(G0.nodes) + 1)..Len(G1.nodes) :
              G1.nodes[i].metadata.intent_id = Some(result.intent_id)
        /\ \A i \in (Len(G0.edges) + 1)..Len(G1.edges) :
              G1.edges[i].metadata.intent_id = Some(result.intent_id)
        /\ options.historyDir =>
              /\ result.intent_id \in DOMAIN historyFiles
              /\ historyFiles[result.intent_id].intent_id = result.intent_id

(***************************************************************************)
(* Properties of the result                                                *)
(***************************************************************************)
\* C14 (shape of IntentResult): a result is success=true exactly when it has
\* a change list and neither errors nor rollback; a validation failure has a
\* non-empty error list and no rollback; an execution failure has exactly one
\* error, EXECUTION_FAILED, and a rollback whose original_state_snapshot is
\* the SSoT as it was when the call started.
C14_ResultShape ==
    Returns =>
        /\ result.success <=>
              (IsSome(result.changes) /\ ~IsSome(result.errors)
                                      /\ ~IsSome(result.rollback))
        /\ ended = "invalid" =>
              /\ IsSome(result.errors) /\ Len(Val(result.errors)) > 0
              /\ ~IsSome(result.rollback)
        /\ Threw =>
              /\ IsSome(result.errors)
              /\ ErrorCodes = <<"EXECUTION_FAILED">>
              /\ IsSome(result.rollback)
              /\ Val(result.rollback).original_state_snapshot = G0

(***************************************************************************)
(* Properties of the node lifecycle                                        *)
(***************************************************************************)
\* the last call was a successful intent of this type naming this node
SucceededOn(type, id) ==
    /\ result.success
    /\ CallType = type
    /\ CallParams.node_ref = Some(id)

\* C15 (node lifecycle frame): a node that was there before a call is gone
\* after it only if the call was a successful I.DeleteNode naming it; a node
\* still there has the id, kind and metadata it had, and its attrs differ
\* only if the call was a successful I.UpdateNodeAttrs naming it.
C15_NodeLifecycleFrame ==
    (Called /\ IsSome(PreSsot)) =>
        \A i \in DOMAIN G0.nodes :
            LET n == G0.nodes[i]
            IN  IF n.id \notin NodeIds(G1)
                THEN SucceededOn("I.DeleteNode", n.id)
                ELSE \A j \in DOMAIN G1.nodes :
                        G1.nodes[j].id = n.id =>
                            /\ G1.nodes[j].kind = n.kind
                            /\ G1.nodes[j].metadata = n.metadata
                            /\ G1.nodes[j].attrs # n.attrs =>
                                  SucceededOn("I.UpdateNodeAttrs", n.id)

\* I.UpdateNodeAttrs of a node of the graph, with a patch
UpdateCall ==
    /\ Called /\ CallType = "I.UpdateNodeAttrs" /\ IsSome(PreSsot)
    /\ IsSome(Val(intent).params)
    /\ IsSome(CallParams.node_ref) /\ IsSome(CallParams.patch)
    /\ Val(CallParams.node_ref) \in NodeIds(G0)

\* C16 (all-or-nothing patch): when an operation of the patch is invalid or
\* a test does not hold the intent fails, and after a failed I.UpdateNodeAttrs
\* the node's attrs are what they were; after a successful one only that
\* node's attrs changed and the one change record is node_updated.
C16_PatchAllOrNothing ==
    UpdateCall =>
        LET ref == Val(CallParams.node_ref)
            i   == IndexOfId(G0.nodes, ref)
            r   == applyPatch(G0.nodes[i].attrs, Val(CallParams.patch))
        IN  /\ r.threw => ~result.success
            /\ IF result.success
               THEN /\ G1.nodes = [G0.nodes EXCEPT ![i].attrs = r.newDocument]
                    /\ G1.edges = G0.edges
                    /\ result.changes =
                         Some(<< Change("node_updated", ref,
                                   [operations |-> Len(Val(CallParams.patch))]) >>)
               ELSE G1.nodes[i].attrs = G0.nodes[i].attrs

(***************************************************************************)
(*                                                                         *)
(* The Criteria Engine (packages/criteria-engine/src/engine.ts)            *)
(*                                                                         *)
(* JavaScript values of rules and attributes are tagged: a number n is     *)
(* Num(n), a string s is Str(s), an array is List(items); undefined, null  *)
(* and NaN are values of their own.  A dotted path is the sequence of its  *)
(* parts ("owner.name" is <<"owner", "name">>).                            *)
(***************************************************************************)
Num(n) == [n |-> n]
Str(str) == [s |-> str]
List(items) == [items |-> items]
Undefined == [undefined |-> TRUE]
NullValue == [null |-> TRUE]
NaNValue == [nan |-> TRUE]

IsNum(v) == DOMAIN v = {"n"}
IsStr(v) == DOMAIN v = {"s"}
IsList(v) == DOMAIN v = {"items"}

\* the value of the member `statement` of attrs, as JavaScript reads it
FromAttr(a) ==
    CASE a = Absent -> Undefined
      [] a = NotANumber -> NaNValue
      [] a = Null -> NullValue
      [] OTHER -> Str(a)

\* String(v)
ToStr(v) ==
    CASE IsNum(v) -> ToString(v.n)
      [] IsStr(v) -> v.s
      [] v = Undefined -> "undefined"
      [] v = NullValue -> "null"
      [] v = NaNValue -> "NaN"
      [] OTHER -> "[object]"

\* Number(v): None stands for NaN; the strings of the model are not numeric
ToNumber(v) ==
    CASE IsNum(v) -> Some(v.n)
      [] v = NullValue -> Some(0)
      [] OTHER -> None

\* a < b for two strings of the model (code unit order)
StrLess(a, b) == <<a, b>> \in {<<"x", "y">>}

\* a < b as JavaScript compares: two strings by code units, anything else
\* as numbers, and never when a side is NaN
Less(a, b) ==
    IF IsStr(a) /\ IsStr(b)
    THEN StrLess(a.s, b.s)
    ELSE /\ IsSome(ToNumber(a)) /\ IsSome(ToNumber(b))
         /\ Val(ToNumber(a)) < Val(ToNumber(b))

\* a <= b as JavaScript compares
LessEq(a, b) ==
    IF IsStr(a) /\ IsStr(b)
    THEN a.s = b.s \/ StrLess(a.s, b.s)
    ELSE /\ IsSome(ToNumber(a)) /\ IsSome(ToNumber(b))
         /\ Val(ToNumber(a)) <= Val(ToNumber(b))

\* a === b
StrictEquals(a, b) == a # NaNValue /\ a = b

\* the patterns of the model: "(" is not a regular expression; Anchored(l)
\* matches the string l and no other; ".*" matches every string
Anchored(l) == "^" \o l \o "$"
Literals == {"x", "y", "exists", "undefined"}
InvalidPattern == "("

\* new RegExp(pattern).test(str): [threw, matched]
RegExpTest(pattern, str) ==
    IF pattern = InvalidPattern
    THEN [threw |-> TRUE, matched |-> FALSE]
    ELSE [threw |-> FALSE,
          matched |-> \/ pattern = ".*"
                      \/ \E l \in Literals : pattern = Anchored(l) /\ str = l]

(***************************************************************************)
(* compareValues: [threw, passed]                                          *)
(***************************************************************************)
compareValues(actual, expected, operator) ==
    LET yes(b) == [threw |-> FALSE, passed |-> b]
    IN  CASE operator = "eq"  -> yes(StrictEquals(actual, expected))
          [] operator = "ne"  -> yes(~StrictEquals(actual, expected))
          [] operator = "gt"  -> yes(Less(expected, actual))
          [] operator = "gte" -> yes(LessEq(expected, actual))
          [] operator = "lt"  -> yes(Less(actual, expected))
          [] operator = "lte" -> yes(LessEq(actual, expected))
          [] operator = "in"  ->
                yes(IsList(expected) /\ Includes(expected.items, actual))
          [] operator = "not_in" ->
                yes(IsList(expected) /\ ~Includes(expected.items, actual))
          [] operator = "matches" ->
                IF ~IsStr(expected) THEN yes(FALSE)
                ELSE LET m == RegExpTest(expected.s, ToStr(actual))
                     IN  [threw |-> m.threw, passed |-> m.matched]
          [] operator = "not_matches" ->
                IF ~IsStr(expected) THEN yes(FALSE)
                ELSE LET m == RegExpTest(expected.s, ToStr(actual))
                     IN  [threw |-> m.threw, passed |-> ~m.matched]
          [] OTHER -> yes(FALSE)

\* getNestedValue(obj, path): path.split('.').reduce((acc, part) =>
\* acc?.[part], obj), for attrs that hold the member `statement` only; a
\* string, null, NaN and undefined have none of the members of the model
getNestedValue(attrs, path) ==
    IF ~IsSome(attrs) THEN Undefined
    ELSE IF Len(path) = 1 /\ path[1] = "statement"
    THEN FromAttr(Val(attrs).statement)
    ELSE Undefined

(***************************************************************************)
(* Rules                                                                   *)
(***************************************************************************)
\* RuleTarget.kind: a single kind, or an array of kinds
OneKind(k) == Some([many |-> FALSE, kinds |-> <<k>>])
KindSet(ks) == Some([many |-> TRUE, kinds |-> ks])

RuleTarget(type, kind) == [type |-> type, kind |-> kind]

\* a RuleCondition with no optional member set
Condition(type) ==
    [ type |-> type, operator |-> None, value |-> None, path |-> None,
      edge_kind |-> None, min |-> None, max |-> None ]

CriteriaRule(id, severity, category, target, condition, message) ==
    [ id |-> id, title |-> id, severity |-> severity, category |-> category,
      target |-> target, condition |-> condition, message |-> message,
      why |-> None, fix_hint |-> None ]

\* an entry of a rules list that is null (an empty item of the YAML list)
NullRule == << >>

(***************************************************************************)
(* getTargets                                                              *)
(***************************************************************************)
TargetNode(id, kind, data) == [id |-> id, kind |-> kind, data |-> data]

\* if (target.kind): a kind that is absent or the empty string is falsy, an
\* array of kinds, empty or not, is truthy
KindGiven(kind) ==
    IsSome(kind) /\ (Val(kind).many \/ Val(kind).kinds[1] # Empty)

\* a getTargets that filters by every kind that is present
getTargetsOfPresentKind(target, g) ==
    LET kinds == Val(target.kind).kinds
    IN  IF target.type = "node"
        THEN LET nodes == IF IsSome(target.kind)
                          THEN SelectSeq(g.nodes, LAMBDA n : Includes(kinds, n.kind))
                          ELSE g.nodes
             IN  [i \in DOMAIN nodes |->
                    TargetNode(nodes[i].id, nodes[i].kind, nodes[i])]
        ELSE IF target.type = "edge"
        THEN LET edges == IF IsSome(target.kind)
                          THEN SelectSeq(g.edges, LAMBDA e : Includes(kinds, e.kind))
                          ELSE g.edges
             IN  [i \in DOMAIN edges |->
                    TargetNode(EdgeTarget(edges[i].from, edges[i].kind, edges[i].to),
                               edges[i].kind, edges[i])]
        ELSE << >>

getTargets(target, g) ==
    LET kinds == Val(target.kind).kinds
    IN  IF target.type = "node"
        THEN LET nodes == IF KindGiven(target.kind)
                          THEN SelectSeq(g.nodes, LAMBDA n : Includes(kinds, n.kind))
                          ELSE g.nodes
             IN  [i \in DOMAIN nodes |->
                    TargetNode(nodes[i].id, nodes[i].kind, nodes[i])]
        ELSE IF target.type = "edge"
        THEN LET edges == IF KindGiven(target.kind)
                          THEN SelectSeq(g.edges, LAMBDA e : Includes(kinds, e.kind))
                          ELSE g.edges
             IN  [i \in DOMAIN edges |->
                    TargetNode(EdgeTarget(edges[i].from, edges[i].kind, edges[i].to),
                               edges[i].kind, edges[i])]
        ELSE << >>

\* kinds.join('|')
RECURSIVE Join(_)
Join(strs) ==
    IF strs = << >> THEN ""
    ELSE IF Len(strs) = 1 THEN strs[1]
    ELSE strs[1] \o "|" \o Join(Tail(strs))

\* Array.isArray(target.kind) ? target.kind.join('|') : target.kind
KindLabel(target) ==
    IF ~IsSome(target.kind) THEN None
    ELSE IF Val(target.kind).many THEN Some(Join(Val(target.kind).kinds))
    ELSE Some(Val(target.kind).kinds[1])

(***************************************************************************)
(* checkRuleCondition and the two per-target checks                        *)
(***************************************************************************)
RuleViolation(ref, kind, anchors, actual, expected) ==
    [ target_ref |-> ref, target_kind |-> kind, evidence_anchors |-> anchors,
      actual_value |-> actual, expected_value |-> expected ]

TargetIds(targets) == [i \in DOMAIN targets |-> targets[i].id]

\* [threw, violation]: violation is None when the target passes; threw when
\* condition.path is missing (path.split on undefined) or the pattern is
\* not a regular expression
checkAttributeCondition(t, condition) ==
    LET attrs    == IF "attrs" \in DOMAIN t.data THEN Some(t.data.attrs) ELSE None
        actual   == getNestedValue(attrs, Val(condition.path))
        expected == IF IsSome(condition.value) THEN Val(condition.value)
                                               ELSE Undefined
        operator == IF IsSome(condition.operator) THEN Val(condition.operator)
                                                  ELSE "eq"
        c        == compareValues(actual, expected, operator)
    IN  IF ~IsSome(condition.path) THEN [threw |-> TRUE, violation |-> None]
        ELSE IF c.threw THEN [threw |-> TRUE, violation |-> None]
        ELSE IF c.passed THEN [threw |-> FALSE, violation |-> None]
        ELSE [ threw |-> FALSE,
               violation |-> Some(RuleViolation(Some(t.id), Some(t.kind),
                                                <<t.id>>, actual, expected)) ]

\* ssot.indexes?.outgoing_edges?.[nodeId]?.filter(...) || []
OutgoingOfKind(g, nodeId, edgeKind) ==
    IF IsSome(g.indexes) /\ nodeId \in DOMAIN Val(g.indexes).outgoing_edges
    THEN SelectSeq(Val(g.indexes).outgoing_edges[nodeId],
                   LAMBDA e : Some(e.kind) = edgeKind)
    ELSE << >>

\* the violation of one target, None when it passes
checkConnectedCondition(t, condition, g) ==
    LET minCount == IF IsSome(condition.min) /\ Val(condition.min) # 0
                    THEN Val(condition.min) ELSE 1
        connectedEdges == OutgoingOfKind(g, t.id, condition.edge_kind)
        edgeKind == IF IsSome(condition.edge_kind) THEN Val(condition.edge_kind)
                                                   ELSE "undefined"
    IN  IF Len(connectedEdges) < minCount
        THEN Some(RuleViolation(Some(t.id), Some(t.kind), <<t.id>>,
                                Num(Len(connectedEdges)),
                                Str(">=" \o ToString(minCount) \o " "
                                         \o edgeKind \o " edges")))
        ELSE None

\* array.push(...items) for each of the arrays in turn
RECURSIVE Flatten(_)
Flatten(arrays) ==
    IF arrays = << >> THEN << >> ELSE Head(arrays) \o Flatten(Tail(arrays))

\* the violations of the targets in order; none when a check throws
AttributeViolations(targets, condition) ==
    IF \E i \in DOMAIN targets :
          checkAttributeCondition(targets[i], condition).threw
    THEN [threw |-> TRUE, violations |-> << >>]
    ELSE [ threw |-> FALSE,
           violations |->
               Flatten([i \in DOMAIN targets |->
                          checkAttributeCondition(targets[i], condition).violation]) ]

ConnectedViolations(targets, condition, g) ==
    Flatten([i \in DOMAIN targets |->
               checkConnectedCondition(targets[i], condition, g)])

\* the expected_value of a count violation
CountExpected(min, max) ==
    (IF IsSome(min) THEN ">=" \o ToString(Val(min)) ELSE "")
    \o (IF IsSome(max) THEN " <=" \o ToString(Val(max)) ELSE "")

\* a checkRuleCondition whose count case reads the lower bound only
checkRuleConditionMinOnly(rule, g) ==
    LET target    == rule.target
        condition == rule.condition
        targets   == getTargets(target, g)
        count     == Len(targets)
        ok(v)     == [threw |-> FALSE, violations |-> v]
    IN  CASE condition.type = "exists" ->
               ok(IF count = 0
                  THEN << RuleViolation(None, KindLabel(target), << >>,
                                        Num(0), Str("at least 1")) >>
                  ELSE << >>)
          [] condition.type = "not_exists" ->
               ok([i \in DOMAIN targets |->
                     RuleViolation(Some(targets[i].id), Some(targets[i].kind),
                                   <<targets[i].id>>, Str("exists"),
                                   Str("should not exist"))])
          [] condition.type = "count" ->
               ok(IF IsSome(condition.min) /\ count < Val(condition.min)
                  THEN << RuleViolation(None, KindLabel(target), TargetIds(targets),
                                        Num(count),
                                        Str(CountExpected(condition.min,
                                                          condition.max))) >>
                  ELSE << >>)
          [] condition.type = "attribute" ->
               AttributeViolations(targets, condition)
          [] condition.type = "connected" ->
               ok(ConnectedViolations(targets, condition, g))
          [] OTHER -> ok(<< >>)

\* [threw, violations]
checkRuleCondition(rule, g) ==
    LET target    == rule.target
        condition == rule.condition
        targets   == getTargets(target, g)
        count     == Len(targets)
        ok(v)     == [threw |-> FALSE, violations |-> v]
    IN  CASE condition.type = "exists" ->
               ok(IF count = 0
                  THEN << RuleViolation(None, KindLabel(target), << >>,
                                        Num(0), Str("at least 1")) >>
                  ELSE << >>)
          [] condition.type = "not_exists" ->
               ok([i \in DOMAIN targets |->
                     RuleViolation(Some(targets[i].id), Some(targets[i].kind),
                                   <<targets[i].id>>, Str("exists"),
                                   Str("should not exist"))])
          [] condition.type = "count" ->
               ok(IF \/ (IsSome(condition.min) /\ count < Val(condition.min))
                     \/ (IsSome(condition.max) /\ count > Val(condition.max))
                  THEN << RuleViolation(None, KindLabel(target), TargetIds(targets),
                                        Num(count),
                                        Str(CountExpected(condition.min,
                                                          condition.max))) >>
                  ELSE << >>)
          [] condition.type = "attribute" ->
               AttributeViolations(targets, condition)
          [] condition.type = "connected" ->
               ok(ConnectedViolations(targets, condition, g))
          [] OTHER -> ok(<< >>)

(***************************************************************************)
(* formatMessage, evaluateRule                                             *)
(***************************************************************************)
\* a message template is the sequence of its literal pieces and placeholders
ReplaceAll(template, placeholder, str) ==
    [i \in DOMAIN template |->
        IF template[i] = placeholder THEN str ELSE template[i]]

RECURSIVE Concat(_)
Concat(strs) == IF strs = << >> THEN "" ELSE Head(strs) \o Concat(Tail(strs))

formatMessage(template, violation) ==
    Concat(ReplaceAll(
             ReplaceAll(
               ReplaceAll(template, "{target_ref}",
                          IF IsSome(violation.target_ref)
                          THEN Val(violation.target_ref) ELSE "unknown"),
               "{actual_value}", ToStr(violation.actual_value)),
             "{expected_value}", ToStr(violation.expected_value)))

Diagnostic(rule, violation, at) ==
    [ rule_id |-> rule.id,
      severity |-> rule.severity,
      message |-> formatMessage(rule.message, violation),
      target_ref |-> violation.target_ref,
      target_kind |-> violation.target_kind,
      why |-> rule.why,
      fix_hint |-> rule.fix_hint,
      evidence_anchors |-> violation.evidence_anchors,
      metadata |-> [ rule_title |-> rule.title,
                     category |-> rule.category,
                     evaluated_at |-> at,
                     actual_value |-> violation.actual_value,
                     expected_value |-> violation.expected_value ] ]

\* the diagnostics of the violations c = [threw, violations] of a rule; an
\* error thrown while the rule was checked is caught and logged
Diagnostics(rule, c, at) ==
    IF c.threw THEN [rejected |-> FALSE, diagnostics |-> << >>]
    ELSE [ rejected |-> FALSE,
           diagnostics |-> [i \in DOMAIN c.violations |->
                              Diagnostic(rule, c.violations[i], at)] ]

\* [rejected, diagnostics].  The log line of the catch handler reads
\* rule.id, which throws again, out of the handler, when the rule is null
evaluateRule(rule, g, at) ==
    IF rule = NullRule THEN [rejected |-> TRUE, diagnostics |-> << >>]
    ELSE Diagnostics(rule, checkRuleCondition(rule, g), at)

(***************************************************************************)
(* calculateQualityScore, evaluate                                         *)
(***************************************************************************)
Max(a, b) == IF a >= b THEN a ELSE b
Min(a, b) == IF a <= b THEN a ELSE b

calculateQualityScoreUnclamped(total, failed, warned) ==
    IF total = 0 THEN 100 ELSE 100 - (failed * 10 + warned * 2)

calculateQualityScore(total, failed, warned) ==
    IF total = 0 THEN 100
    ELSE LET penalty == failed * 10 + warned * 2
             score   == 100 - penalty
         IN  Max(0, Min(100, score))

CountSeverityOrWorse(diagnostics, severity) ==
    Cardinality({i \in DOMAIN diagnostics :
                    diagnostics[i].severity \in {severity, "FAIL"}})

\* diagnostics.filter((d) => d.severity === severity).length
CountSeverity(diagnostics, severity) ==
    Cardinality({i \in DOMAIN diagnostics : diagnostics[i].severity = severity})

\* diagnostics.push(...ruleDiagnostics) for the outcome of each rule
Collected(outcomes) ==
    IF \E i \in DOMAIN outcomes : outcomes[i].rejected
    THEN [rejected |-> TRUE, diagnostics |-> << >>]
    ELSE [ rejected |-> FALSE,
           diagnostics |->
               Flatten([i \in DOMAIN outcomes |-> outcomes[i].diagnostics]) ]

\* the loop over this.rules: [rejected, diagnostics]
EvaluateRules(rs, g, at) ==
    Collected([i \in DOMAIN rs |-> evaluateRule(rs[i], g, at)])

\* byCategory: the number of rules of each category
ByCategory(rs) ==
    [c \in {rs[i].category : i \in DOMAIN rs} |->
        Cardinality({i \in DOMAIN rs : rs[i].category = c})]

EvaluateRejected == [kind |-> "rejected"]

\* what an evaluate call leaves behind: the graph it was given, this.rules
\* and the settlement of the promise it returned
EvaluatedShiftingRules(g, rs, settled) ==
    [ssot |-> g, rules |-> IF rs = << >> THEN rs ELSE Tail(rs), settled |-> settled]

Evaluated(g, rs, settled) == [ssot |-> g, rules |-> rs, settled |-> settled]

\* the object evaluate returns for the diagnostics of the loop
CriteriaEvaluation(rs, g, timestamp, diagnostics) ==
    [ ssot_version |-> Val(g.meta).version,
      timestamp |-> timestamp,
      total_rules |-> Len(rs),
      passed |-> Len(rs) - Len(diagnostics),
      warned |-> CountSeverity(diagnostics, "WARN"),
      failed |-> CountSeverity(diagnostics, "FAIL"),
      diagnostics |-> diagnostics,
      summary |->
        [ by_severity |-> [ PASS |-> Len(rs) - Len(diagnostics),
                            WARN |-> CountSeverity(diagnostics, "WARN"),
                            FAIL |-> CountSeverity(diagnostics, "FAIL") ],
          by_category |-> ByCategory(rs),
          quality_score |->
              calculateQualityScore(Len(rs),
                                    CountSeverity(diagnostics, "FAIL"),
                                    CountSeverity(diagnostics, "WARN")) ] ]

\* how the promise settles: rejected when a rule made the loop throw or
\* when ssot.meta is missing
Settlement(rs, g, timestamp, run) ==
    IF run.rejected \/ ~IsSome(g.meta)
    THEN EvaluateRejected
    ELSE [ kind |-> "fulfilled",
           value |-> CriteriaEvaluation(rs, g, timestamp, run.diagnostics) ]

evaluate(rs, g, timestamp) ==
    Evaluated(g, rs,
              Settlement(rs, g, timestamp, EvaluateRules(rs, g, timestamp)))

(***************************************************************************)
(* checkQualityGate, setQualityGate                                        *)
(***************************************************************************)
QualityThreshold(maxFail, maxWarn, minQualityScore) ==
    [ max_fail |-> maxFail, max_warn |-> maxWarn,
      min_quality_score |-> minQualityScore ]

QualityGate(baseline) == [baseline |-> baseline]

\* the gates of the model: no threshold set, one threshold set, all three
QualityGates ==
    { QualityGate(QualityThreshold(None, None, None)),
      QualityGate(QualityThreshold(Some(2), None, None)),
      QualityGate(QualityThreshold(Some(5), Some(1), Some(80))) }

checkQualityGateFailOnly(ev, gate, configured) ==
    LET g == IF IsSome(gate) THEN gate ELSE configured
    IN  ~IsSome(g) \/ ~IsSome(Val(g).baseline.max_fail)
                   \/ ev.failed <= Val(Val(g).baseline.max_fail)

\* gate is the argument, None when it is left out; configured is
\* this.qualityGate
checkQualityGate(ev, gate, configured) ==
    LET g == IF IsSome(gate) THEN gate ELSE configured
        baseline == Val(g).baseline
    IN  IF ~IsSome(g) THEN TRUE
        ELSE IF IsSome(baseline.max_fail) /\ ev.failed > Val(baseline.max_fail)
        THEN FALSE
        ELSE IF IsSome(baseline.max_warn) /\ ev.warned > Val(baseline.max_warn)
        THEN FALSE
        ELSE IF /\ IsSome(baseline.min_quality_score)
                /\ ev.summary.quality_score < Val(baseline.min_quality_score)
        THEN FALSE
        ELSE TRUE

\* the value of this.qualityGate after setQualityGate(gate)
setQualityGate(gate) == Some(gate)

(***************************************************************************)
(* loadRules                                                               *)
(***************************************************************************)
\* a YAML document of the directory: a catalog with a rules list, a catalog
\* without one, or an empty file, which parses to null
CatalogOf(rs) == [rules |-> Some(rs)]
CatalogWithoutRules == [rules |-> None]
EmptyFile == << >>

\* [rejected, rules]: fs.readdir fails with ENOENT for a missing directory
\* and the method returns; doc.rules of a null document throws, the error
\* is thrown on and the rules pushed so far stay
RECURSIVE PushCatalogs(_, _)
PushCatalogs(files, rs) ==
    IF files = << >> THEN [rejected |-> FALSE, rules |-> rs]
    ELSE IF Head(files) = EmptyFile THEN [rejected |-> TRUE, rules |-> rs]
    ELSE IF IsSome(Head(files).rules)
    THEN PushCatalogs(Tail(files), rs \o Val(Head(files).rules))
    ELSE PushCatalogs(Tail(files), rs)

loadRules(dir, rs) ==
    IF ~IsSome(dir) THEN [rejected |-> FALSE, rules |-> rs]
    ELSE PushCatalogs(Val(dir), rs)

(***************************************************************************)
(* Rule catalogs and graphs the Criteria Engine is run on                  *)
(***************************************************************************)
\* options.criteriaDir: None when the directory is missing, else its YAML
\* documents in the order readdir gives them
CriteriaDirs ==
    LET
        RequirementExists ==
            CriteriaRule("C.RequirementExists", "FAIL", "completeness",
                         RuleTarget("node", OneKind("Requirement")), Condition("exists"),
                         <<"no ", "{target_ref}", " node: ", "{actual_value}",
                           ", expected ", "{expected_value}">>)

        NeedRefined ==
            CriteriaRule("C.NeedRefined", "WARN", "traceability",
                         RuleTarget("node", OneKind("Need")),
                         [Condition("connected") EXCEPT !.edge_kind = Some("refinesTo")],
                         <<"{target_ref}", " has ", "{actual_value}", " of ",
                           "{expected_value}">>)

        NeedRefinedMinZero ==
            CriteriaRule("C.NeedRefinedMinZero", "WARN", "traceability",
                         RuleTarget("node", OneKind("Need")),
                         [Condition("connected") EXCEPT !.edge_kind = Some("refinesTo"),
                                                        !.min = Some(0)],
                         <<"{target_ref}", " has ", "{actual_value}">>)

        NeedNoted ==
            CriteriaRule("C.NeedNoted", "INFO", "style",
                         RuleTarget("node", KindSet(<<"Need", "Goal">>)),
                         Condition("not_exists"),
                         <<"{target_ref}", " ", "{actual_value}">>)

        NothingAllowed ==
            CriteriaRule("C.NothingAllowed", "FAIL", "completeness",
                         RuleTarget("node", None), Condition("not_exists"),
                         <<"{target_ref}", " ", "{expected_value}">>)

        EdgesCounted ==
            CriteriaRule("C.EdgesCounted", "WARN", "traceability",
                         RuleTarget("edge", OneKind("refinesTo")),
                         [Condition("count") EXCEPT !.min = Some(1), !.max = Some(1)],
                         <<"{actual_value}", " edges, expected ", "{expected_value}">>)

        StatementIsX ==
            CriteriaRule("C.StatementIsX", "WARN", "style",
                         RuleTarget("node", OneKind("Need")),
                         [Condition("attribute") EXCEPT !.path = Some(<<"statement">>),
                                                        !.value = Some(Str("x"))],
                         <<"{target_ref}", ": ", "{actual_value}", " is not ",
                           "{expected_value}">>)

        StatementMatches ==
            CriteriaRule("C.StatementMatches", "FAIL", "style",
                         RuleTarget("node", OneKind("Need")),
                         [Condition("attribute") EXCEPT !.path = Some(<<"statement">>),
                                                        !.operator = Some("matches"),
                                                        !.value = Some(Str(Anchored("y")))],
                         <<"{target_ref}", ": ", "{actual_value}">>)

        \* rules whose evaluation throws: no path, and a pattern that does not compile
        StatementNoPath ==
            CriteriaRule("C.StatementNoPath", "FAIL", "style",
                         RuleTarget("node", OneKind("Need")),
                         [Condition("attribute") EXCEPT !.value = Some(Str("x"))],
                         <<"{target_ref}">>)

        StatementBadPattern ==
            CriteriaRule("C.StatementBadPattern", "FAIL", "style",
                         RuleTarget("node", OneKind("Need")),
                         [Condition("attribute") EXCEPT !.path = Some(<<"statement">>),
                                                        !.operator = Some("matches"),
                                                        !.value = Some(Str(InvalidPattern))],
                         <<"{target_ref}">>)

        \* rules whose condition type the switch does not handle
        CustomRule ==
            CriteriaRule("C.Custom", "FAIL", "custom",
                         RuleTarget("node", None), Condition("custom"),
                         <<"{target_ref}">>)

        UnknownTypeRule ==
            CriteriaRule("C.UnknownType", "FAIL", "custom",
                         RuleTarget("node", None), Condition("forbidden"),
                         <<"{target_ref}">>)

        \* exists and not_exists over edges, over everything, over no kind at
        \* all and over the empty string as the kind
        SatisfiesExists ==
            CriteriaRule("C.SatisfiesExists", "WARN", "completeness",
                         RuleTarget("edge", OneKind("satisfies")), Condition("exists"),
                         <<"{target_ref}">>)

        EdgesForbidden ==
            CriteriaRule("C.EdgesForbidden", "INFO", "style",
                         RuleTarget("edge", KindSet(<<"refinesTo", "expresses">>)),
                         Condition("not_exists"), <<"{target_ref}">>)

        AnythingExists ==
            CriteriaRule("C.AnythingExists", "WARN", "completeness",
                         RuleTarget("node", None), Condition("exists"),
                         <<"{target_ref}">>)

        NoKindsForbidden ==
            CriteriaRule("C.NoKindsForbidden", "INFO", "style",
                         RuleTarget("node", KindSet(<< >>)), Condition("not_exists"),
                         <<"{target_ref}">>)

        BlankKindExists ==
            CriteriaRule("C.BlankKindExists", "WARN", "completeness",
                         RuleTarget("node", OneKind(Empty)), Condition("exists"),
                         <<"{target_ref}">>)

        \* count with one bound, with none, and with a lower bound of 0
        NeedsAtLeastTwo ==
            CriteriaRule("C.NeedsAtLeastTwo", "WARN", "completeness",
                         RuleTarget("node", OneKind("Need")),
                         [Condition("count") EXCEPT !.min = Some(2)],
                         <<"{actual_value}", " needs, expected ", "{expected_value}">>)

        NodesAtMostTwo ==
            CriteriaRule("C.NodesAtMostTwo", "INFO", "style",
                         RuleTarget("node", None),
                         [Condition("count") EXCEPT !.max = Some(2)],
                         <<"{actual_value}", " nodes, expected ", "{expected_value}">>)

        NodesUnbounded ==
            CriteriaRule("C.NodesUnbounded", "FAIL", "style",
                         RuleTarget("node", None), Condition("count"),
                         <<"{actual_value}">>)

        EdgesAtLeastZero ==
            CriteriaRule("C.EdgesAtLeastZero", "FAIL", "style",
                         RuleTarget("edge", None),
                         [Condition("count") EXCEPT !.min = Some(0), !.max = Some(1)],
                         <<"{actual_value}", " edges, expected ", "{expected_value}">>)
    IN
    { None,
      Some(<< CatalogOf(<<SatisfiesExists, EdgesForbidden, AnythingExists,
                          NoKindsForbidden, BlankKindExists>>) >>),
      Some(<< CatalogOf(<<NeedsAtLeastTwo, NodesAtMostTwo, NodesUnbounded,
                          EdgesAtLeastZero>>) >>),
      Some(<< CatalogOf(<<RequirementExists, NeedRefined, NeedNoted>>) >>),
      Some(<< CatalogOf(<<StatementIsX, StatementMatches, EdgesCounted,
                          NeedRefinedMinZero>>),
              CatalogWithoutRules >>),
      Some(<< CatalogOf(<<CustomRule, StatementNoPath, RequirementExists,
                          UnknownTypeRule, StatementBadPattern, NeedRefined>>) >>),
      Some(<< CatalogOf(<<RequirementExists, NullRule, NeedRefined>>) >>),
      Some(<< CatalogOf(<<NothingAllowed, NothingAllowed>>),
              CatalogOf(<<NeedNoted>>) >>),
      Some(<< CatalogOf(<<NeedRefined>>), EmptyFile,
              CatalogOf(<<RequirementExists>>) >>) }

SSoTMeta(version) == [version |-> version, collaboration_mode |-> "copilot"]

Graph(meta, nodes, edges) ==
    [meta |-> meta, nodes |-> nodes, edges |-> edges, indexes |-> None]

\* the graphs handed to evaluate: with the indexes of the graph, with no
\* indexes member, with the indexes of an earlier empty graph, and one that
\* has no meta member
Graphs ==
    LET
        \* two needs and nothing else
        GraphNeeds ==
            Graph(Some(SSoTMeta("1.0.0")),
                  << MkNode("n1", "Need", Attrs("x"), Imported),
                     MkNode("n2", "Need", Attrs(NotANumber), Imported) >>,
                  << >>)

        \* a stakeholder, its need and the need's requirement
        GraphChain ==
            Graph(Some(SSoTMeta("1.1.0")),
                  << MkNode("a1", "Stakeholder", Attrs("x"), Imported),
                     MkNode("n1", "Need", Attrs("y"), Imported),
                     MkNode("r1", "Requirement", Attrs(Absent), Imported) >>,
                  << MkEdge("a1", "expresses", "n1", Imported),
                     MkEdge("n1", "refinesTo", "r1", Imported) >>)
    IN
    { Graph(Some(SSoTMeta("0.0.0")), << >>, << >>),
      rebuildIndexes(GraphNeeds),
      rebuildIndexes(GraphChain),
      GraphChain,
      [GraphChain EXCEPT !.indexes = Some(EmptyIndexes)],
      [rebuildIndexes(GraphChain) EXCEPT !.meta = None] }

(***************************************************************************)
(* The Criteria Engine as a state machine                                  *)
(***************************************************************************)
\* a constructed CriteriaEngine next to an Intent Engine that stays idle
CriteriaInit ==
    /\ options = Options(FALSE, FALSE)
    /\ ssotFile = DocEmpty
    /\ catalogFile = CatalogStrict
    /\ historyFiles = << >>
    /\ ssot = None
    /\ schema = None
    /\ catalog = None
    /\ uuidCount = 0
    /\ clock = 0
    /\ calls = 0
    /\ intent = None
    /\ pre = None
    /\ result = NoResult
    /\ ended = "none"
    /\ inflight = << >>
    /\ held = None
    /\ criteriaDir \in CriteriaDirs
    /\ rules = << >>
    /\ loads = 0
    /\ evaluations = 0
    /\ evaluation = None
    /\ previous = None
    /\ qualityGate = None
    /\ gateCalls = 0
    /\ gateCheck = None
    /\ LintConstructed

\* loadRules(), called by initialize() or by the host
LoadRules ==
    /\ loads < MaxLoads
    /\ loads' = loads + 1
    /\ rules' = loadRules(criteriaDir, rules).rules
    /\ UNCHANGED << criteriaDir, evaluations, evaluation, previous, clock,
                    qualityGate, gateCalls, gateCheck >>
    /\ UNCHANGED << engineVars, lintVars >>

\* evaluate(ssot) on any of the graphs
Evaluate ==
    /\ evaluations < MaxEvaluations
    /\ evaluations' = evaluations + 1
    /\ clock' = clock + 1
    /\ \E g \in Graphs :
          evaluation' = Some([ given |-> g, loaded |-> rules,
                               left |-> evaluate(rules, g, clock + 1) ])
    /\ rules' = Val(evaluation').left.rules
    /\ previous' = evaluation
    /\ UNCHANGED << criteriaDir, loads, qualityGate, gateCalls, gateCheck >>
    /\ UNCHANGED << engineVars, lintVars >>

\* setQualityGate(gate)
SetQualityGate ==
    /\ gateCalls < MaxGateCalls
    /\ gateCalls' = gateCalls + 1
    /\ \E gate \in QualityGates : qualityGate' = setQualityGate(gate)
    /\ UNCHANGED << criteriaDir, rules, loads, evaluations, evaluation, previous,
                    clock, gateCheck >>
    /\ UNCHANGED << engineVars, lintVars >>

\* checkQualityGate(evaluation, gate) on the evaluation last returned, with
\* and without the gate argument
CheckQualityGate ==
    /\ gateCalls < MaxGateCalls
    /\ gateCalls' = gateCalls + 1
    /\ IsSome(evaluation)
    /\ Val(evaluation).left.settled.kind = "fulfilled"
    /\ \E gate \in {None} \cup {Some(g) : g \in QualityGates} :
          gateCheck' =
              Some([ evaluation |-> Val(evaluation).left.settled.value,
                     gate |-> gate,
                     qualityGate |-> qualityGate,
                     returned |-> checkQualityGate(
                                      Val(evaluation).left.settled.value,
                                      gate, qualityGate) ])
    /\ UNCHANGED << criteriaDir, rules, loads, evaluations, evaluation, previous,
                    clock, qualityGate >>
    /\ UNCHANGED << engineVars, lintVars >>

CriteriaNext == LoadRules \/ Evaluate

SpecCriteria == CriteriaInit /\ [][CriteriaNext]_vars

\* the Criteria Engine with its quality gate in use
GateNext == LoadRules \/ Evaluate \/ SetQualityGate \/ CheckQualityGate

SpecGate == CriteriaInit /\ [][GateNext]_vars


(***************************************************************************)
(* The last evaluate call, as the properties below read it                 *)
(***************************************************************************)
Evaluates == IsSome(evaluation)

\* the call returned a CriteriaEvaluation
EvaluateReturned == Evaluates /\ Val(evaluation).left.settled.kind = "fulfilled"

\* the CriteriaEvaluation of the last call
E1 == Val(evaluation).left.settled.value

\* a settlement with every timestamp blanked
WithoutTimestamps(settled) ==
    IF settled.kind # "fulfilled" THEN settled
    ELSE [settled EXCEPT
            !.value.timestamp = 0,
            !.value.diagnostics =
                [i \in DOMAIN @ |-> [@[i] EXCEPT !.metadata.evaluated_at = 0]]]

HandledTypes == {"exists", "not_exists", "count", "attribute", "connected"}

\* the rule's evaluation on g throws, or its condition type is custom or
\* not recognized
Malfunctions(rule, g) ==
    \/ rule = NullRule
    \/ rule.condition.type \notin HandledTypes
    \/ checkRuleCondition(rule, g).threw

\* the diagnostics the rules that do not malfunction produce on their own
DiagnosticsOfTheOthers ==
    LET g == Val(evaluation).given
    IN  EvaluateRules(SelectSeq(Val(evaluation).loaded,
                                LAMBDA r : ~Malfunctions(r, g)),
                      g, clock).diagnostics

\* C18: every evaluate call returns a CriteriaEvaluation, and its diagnostics
\* are those of the rules that neither throw nor have an unrecognized or
\* custom condition type, as if the other rules were not loaded.
C18_RuleIsolation ==
    Evaluates =>
        /\ Val(evaluation).left.settled.kind = "fulfilled"
        /\ WithoutTimestamps(Val(evaluation).left.settled).value.diagnostics
             = [i \in DOMAIN DiagnosticsOfTheOthers |->
                  [DiagnosticsOfTheOthers[i] EXCEPT !.metadata.evaluated_at = 0]]

\* C19: in every CriteriaEvaluation total_rules is the number of loaded
\* rules, failed the number of FAIL diagnostics, warned the number of WARN
\* diagnostics and passed is total_rules less the number of diagnostics.
C19_AggregateCounts ==
    EvaluateReturned =>
        LET d == E1.diagnostics
        IN  /\ E1.total_rules = Len(Val(evaluation).loaded)
            /\ E1.failed = Cardinality({i \in DOMAIN d : d[i].severity = "FAIL"})
            /\ E1.warned = Cardinality({i \in DOMAIN d : d[i].severity = "WARN"})
            /\ E1.passed = E1.total_rules - Len(d)

\* an evaluation with findings of all three severities
C19_Witness ==
    /\ EvaluateReturned
    /\ E1.total_rules = 3
    /\ E1.failed = 1
    /\ E1.warned = 2
    /\ Len(E1.diagnostics) = 5
    /\ E1.passed = -2

\* C20: in every CriteriaEvaluation quality_score is
\* max(0, min(100, 100 - (10*failed + 2*warned))) for the FAIL and WARN
\* diagnostics counted; it lies in 0..100, INFO diagnostics do not enter it,
\* and 1 FAIL with 2 WARN gives 86.
C20_QualityScore ==
    EvaluateReturned =>
        LET d == E1.diagnostics
            nFail == Cardinality({i \in DOMAIN d : d[i].severity = "FAIL"})
            nWarn == Cardinality({i \in DOMAIN d : d[i].severity = "WARN"})
            raw == 100 - (10 * nFail + 2 * nWarn)
            clamped == IF raw < 0 THEN 0 ELSE IF raw > 100 THEN 100 ELSE raw
        IN  /\ E1.summary.quality_score = clamped
            /\ E1.summary.quality_score \in 0..100
            /\ (nFail = 1 /\ nWarn = 2) => E1.summary.quality_score = 86

\* 1 FAIL, 2 WARN and 2 INFO diagnostics, scored 86
C20_Witness ==
    /\ EvaluateReturned
    /\ E1.failed = 1
    /\ E1.warned = 2
    /\ \E i \in DOMAIN E1.diagnostics : E1.diagnostics[i].severity = "INFO"
    /\ E1.summary.quality_score = 86

(***************************************************************************)
(* The quality gate                                                        *)
(***************************************************************************)
\* the gate a checkQualityGate call went by: its argument, else the
\* configured gate, else None
GateOf(check) == IF IsSome(check.gate) THEN check.gate ELSE check.qualityGate

\* some threshold that is set in the baseline is violated by the evaluation
ThresholdViolated(ev, baseline) ==
    \/ IsSome(baseline.max_fail) /\ ev.failed > Val(baseline.max_fail)
    \/ IsSome(baseline.max_warn) /\ ev.warned > Val(baseline.max_warn)
    \/ /\ IsSome(baseline.min_quality_score)
       /\ ev.summary.quality_score < Val(baseline.min_quality_score)

\* C21: checkQualityGate returns false exactly when a threshold that is set
\* in the baseline of the gate is violated (failed > max_fail, warned >
\* max_warn, quality_score < min_quality_score); with no gate at all it
\* returns true; the call leaves the evaluation and the configured gate as
\* they were.
C21_QualityGate ==
    [][ gateCheck' # gateCheck =>
          LET check == Val(gateCheck')
          IN  /\ check.returned =
                    (IsSome(GateOf(check)) =>
                        ~ThresholdViolated(check.evaluation,
                                           Val(GateOf(check)).baseline))
              /\ check.evaluation = Val(evaluation).left.settled.value
              /\ evaluation' = evaluation
              /\ qualityGate' = qualityGate ]_vars

\* a check without a gate argument that the configured gate fails on
\* max_fail
C21_Witness ==
    /\ IsSome(gateCheck)
    /\ ~IsSome(Val(gateCheck).gate)
    /\ IsSome(Val(gateCheck).qualityGate)
    /\ Val(Val(gateCheck).qualityGate).baseline.max_fail = Some(2)
    /\ Val(gateCheck).evaluation.failed > 2
    /\ ~Val(gateCheck).returned

(***************************************************************************)
(* Overlapping execute calls                                               *)
(***************************************************************************)
\* the call has taken its snapshot and has neither returned nor rolled back
InWindow(c) == c.pc \in {"mutated", "saving", "recording"}

\* C22: while an execute call is inside its window, from the snapshot to the
\* return or the rollback, no other execute call of the engine takes a
\* step: none begins and none is resumed.
C22_MutualExclusion ==
    [][ (inflight' # inflight \/ calls' # calls) =>
          ~\E i \in DOMAIN inflight :
              /\ InWindow(inflight[i])
              /\ \E j \in DOMAIN inflight' : inflight'[j] = inflight[i] ]_vars

(***************************************************************************)
(* Properties of the compound intents                                      *)
(***************************************************************************)
Triples(edges) == [i \in DOMAIN edges |-> Triple(edges[i])]
\* the reference names a node of this kind in the graph before the call
Names(ref, kind) ==
    /\ IsSome(ref)
    /\ Val(ref) \in NodeIds(G0)
    /\ KindOf(G0, Val(ref)) = kind
\* the graph after the call has the nodes and edges of the graph before it,
\* then these many more
Appended(nodes, edges) ==
    /\ Len(G1.nodes) = Len(G0.nodes) + nodes
    /\ SubSeq(G1.nodes, 1, Len(G0.nodes)) = G0.nodes
    /\ Len(G1.edges) = Len(G0.edges) + edges
    /\ SubSeq(G1.edges, 1, Len(G0.edges)) = G0.edges
RefinementCall ==
    /\ Called /\ CallType = "I.AddRequirementRefinement" /\ IsSome(PreSsot)
    /\ IsSome(Val(intent).params)

\* C23 (I.AddRequirementRefinement): when need_ref names no node, or a node
\* whose kind is not Need, the intent fails and the graph has the node ids
\* and the edges it had; when need_ref names a Need the handler does not
\* throw, and a successful intent has appended exactly one node, of kind
\* Requirement and with an id no node had, and exactly one edge, refinesTo
\* from the Need to the new node, and returns the two change records
\* node_added then edge_added.
C23_AddRequirementRefinement ==
    RefinementCall =>
        LET ref == CallParams.need_ref
        IN  /\ ~Names(ref, "Need") =>
                  /\ ~result.success
                  /\ IdsOf(G1.nodes) = IdsOf(G0.nodes)
                  /\ Triples(G1.edges) = Triples(G0.edges)
            /\ Names(ref, "Need") => ended # "handler_threw"
            /\ result.success =>
                  LET req  == G1.nodes[Len(G1.nodes)]
                      edge == G1.edges[Len(G1.edges)]
                  IN  /\ Appended(1, 1)
                      /\ req.kind = "Requirement"
                      /\ req.id \notin NodeIds(G0)
                      /\ Triple(edge) = << Val(ref), "refinesTo", req.id >>
                      /\ result.changes =
                           Some(<< Change("node_added", req.id,
                                          [kind |-> "Requirement"]),
                                   Change("edge_added",
                                          EdgeTarget(Val(ref), "refinesTo", req.id),
                                          [kind |-> "refinesTo"]) >>)

\* a Need of a graph that already has a refinement got a second one
C23_Witness ==
    /\ RefinementCall /\ result.success
    /\ Names(CallParams.need_ref, "Need")
    /\ Len(G0.edges) > 0
    /\ Len(G1.nodes) = Len(G0.nodes) + 1
    /\ G1.nodes[Len(G1.nodes)].kind = "Requirement"
    /\ Len(Val(result.changes)) = 2

AddNeedCall ==
    /\ Called /\ CallType = "I.AddNeed" /\ IsSome(PreSsot)
    /\ IsSome(Val(intent).params)

\* what a successful I.AddNeed has done, expressed_by counting as given or
\* not: one node appended, of kind Need and with an id no node had; one
\* expresses edge from expressed_by to it appended when given and no edge
\* otherwise; the change list node_added then edge_added with the edge and
\* node_added alone without; the nodes and edges that were there unchanged
AddNeedDid(given) ==
    LET by    == CallParams.expressed_by
        need  == G1.nodes[Len(G1.nodes)]
        added == Change("node_added", need.id, [kind |-> "Need"])
    IN  /\ Appended(1, IF given THEN 1 ELSE 0)
        /\ need.kind = "Need"
        /\ need.id \notin NodeIds(G0)
        /\ given =>
              /\ Triple(G1.edges[Len(G1.edges)]) =
                   << Val(by), "expresses", need.id >>
              /\ result.changes =
                   Some(<< added,
                           Change("edge_added",
                                  EdgeTarget(Val(by), "expresses", need.id),
                                  [kind |-> "expresses"]) >>)
        /\ ~given => result.changes = Some(<< added >>)

CountTriple(edges, triple) ==
    Cardinality({i \in DOMAIN edges : Triple(edges[i]) = triple})
\* the edges an index holds under a key, none when the key is absent
Indexed(index, key) == IF key \in DOMAIN index THEN index[key] ELSE << >>
\* I.AddEdge with the (from, kind, to) of an edge the graph already has
DuplicateEdgeCall ==
    /\ Called /\ CallType = "I.AddEdge" /\ IsSome(PreSsot)
    /\ IsSome(Val(intent).params)
    /\ IsSome(CallParams.from_ref) /\ IsSome(CallParams.edge_kind)
    /\ IsSome(CallParams.to_ref)
    /\ CountTriple(G0.edges, << Val(CallParams.from_ref),
                               Val(CallParams.edge_kind),
                               Val(CallParams.to_ref) >>) > 0

\* C25 (duplicate edges): an I.AddEdge with the (from, kind, to) of an edge
\* the graph already has is not refused for that: when it passed validation
\* and its endpoints have the kinds the edge definition asks for, the
\* handler does not throw; when it succeeds the edge sequence has one more
\* edge with that triple than before, so at least two, and
\* outgoing_edges[from] and incoming_edges[to] each hold as many edges with
\* the triple as the edge sequence.
C25_DuplicateEdgesPermitted ==
    DuplicateEdgeCall =>
        LET from   == Val(CallParams.from_ref)
            kind   == Val(CallParams.edge_kind)
            to     == Val(CallParams.to_ref)
            triple == << from, kind, to >>
            defs   == Val(schema).edge_definitions
        IN  /\ ( /\ PassedValidation
                 /\ kind \in DOMAIN defs
                 /\ KindOf(G0, from) \in Range(defs[kind].from)
                 /\ KindOf(G0, to) \in Range(defs[kind].to) )
                  => ended # "handler_threw"
            /\ result.success =>
                  /\ CountTriple(G1.edges, triple) =
                       CountTriple(G0.edges, triple) + 1
                  /\ CountTriple(Indexed(Val(G1.indexes).outgoing_edges, from),
                                 triple) = CountTriple(G1.edges, triple)
                  /\ CountTriple(Indexed(Val(G1.indexes).incoming_edges, to),
                                 triple) = CountTriple(G1.edges, triple)

\* the edge a first I.AddEdge appended was added once more by a second
C25_Witness ==
    /\ DuplicateEdgeCall /\ result.success
    /\ calls = 2
    /\ G0.edges[Len(G0.edges)].metadata.created_by = "user"
    /\ Triple(G0.edges[Len(G0.edges)]) = Triple(G1.edges[Len(G1.edges)])
    /\ CountTriple(G1.edges, Triple(G1.edges[Len(G1.edges)])) = 2

\* contents this.ssot.indexes may have when rebuildIndexes is called: none,
\* empty, those of another graph
PreviousIndexes ==
    { None, Some(EmptyIndexes), Some(BuildIndexes(DocChain)) }

\* C26 (idempotent reindexing): for the graph the engine holds, rebuilding
\* the indexes of the rebuilt graph yields the same graph again, and the
\* rebuild yields the same indexes whatever the indexes were before; after
\* a committed call the indexes are the ones a further rebuild yields, and
\* the ones a rebuild yields from the new nodes and edges under the indexes
\* of before the call.
C26_ReindexIdempotent ==
    IsSome(ssot) =>
        LET s == Val(ssot)
        IN  /\ rebuildIndexes(rebuildIndexes(s)) = rebuildIndexes(s)
            /\ \A x \in PreviousIndexes :
                   rebuildIndexes([s EXCEPT !.indexes = x]) = rebuildIndexes(s)
            /\ (Called /\ IsSome(PreSsot) /\ ended = "committed") =>
                   /\ rebuildIndexes(s) = s
                   /\ rebuildIndexes([s EXCEPT !.indexes = G0.indexes]) = s

\* a call added an edge to a graph loaded with indexes that were not those
\* of its nodes and edges
C26_Witness ==
    /\ Called /\ IsSome(PreSsot) /\ ended = "committed"
    /\ IsSome(G0.indexes)
    /\ G0.indexes # Some(BuildIndexes(G0))
    /\ Len(G1.edges) = Len(G0.edges) + 1
    /\ G1.indexes # G0.indexes
    /\ rebuildIndexes(G1) = G1

(***************************************************************************)
(* Properties of the conditions                                            *)
(***************************************************************************)
\* the graph and the rules of the last evaluate call
Given  == Val(evaluation).given
Loaded == Val(evaluation).loaded
\* the rules of the last call with this condition type
LoadedOfType(type) ==
    {r \in Range(Loaded) : r # NullRule /\ r.condition.type = type}
\* how many times the rule is in the list, and its diagnostics in the
\* evaluation returned
Copies(rule) == Cardinality({i \in DOMAIN Loaded : Loaded[i] = rule})
DiagnosticsFor(rule) ==
    SelectSeq(E1.diagnostics, LAMBDA d : d.rule_id = rule.id)
RECURSIVE Times(_, _)
Times(seq, n) == IF n = 0 THEN << >> ELSE seq \o Times(seq, n - 1)
\* the ids of the nodes, or of the edges, of the graph that the rule's
\* target names, in graph order; filtered tells whether the kind counts
MembersOf(target, g, filtered) ==
    LET kinds  == Range(Val(target.kind).kinds)
        nodes  == SelectSeq(g.nodes, LAMBDA n : filtered => n.kind \in kinds)
        edges  == SelectSeq(g.edges, LAMBDA e : filtered => e.kind \in kinds)
    IN  IF target.type = "node" THEN IdsOf(nodes)
        ELSE [i \in DOMAIN edges |->
                EdgeTarget(edges[i].from, edges[i].kind, edges[i].to)]
\* the kind of a target narrows the target set: always when it is present
\* if the empty string counts as a kind, and else unless it is that string
Filters(kind, blankIsKind) ==
    IsSome(kind) /\ (blankIsKind \/ Val(kind).many \/ Val(kind).kinds # << "" >>)
KindNonEmpty(kind) == Filters(kind, FALSE)
TargetRefs(diagnostics) ==
    [i \in DOMAIN diagnostics |-> diagnostics[i].target_ref]
\* each exists rule has one diagnostic, without target reference, when its
\* target set is empty and none otherwise, and each not_exists rule one
\* diagnostic per member of its target set, in graph order
ExistenceRulesHold(blankIsKind) ==
    /\ \A r \in LoadedOfType("exists") :
          TargetRefs(DiagnosticsFor(r)) =
              Times(IF MembersOf(r.target, Given, Filters(r.target.kind, blankIsKind)) = << >>
                    THEN << None >> ELSE << >>, Copies(r))
    /\ \A r \in LoadedOfType("not_exists") :
          LET members == MembersOf(r.target, Given, Filters(r.target.kind, blankIsKind))
          IN  TargetRefs(DiagnosticsFor(r)) =
                  Times([i \in DOMAIN members |-> Some(members[i])], Copies(r))

\* C27 as stated (exists, not_exists): the target set is the nodes or edges
\* whose kind is the rule's kind or in its kind set whenever a kind is
\* given, the empty string included; exists yields one diagnostic without
\* target reference iff the set is empty, not_exists one per member in
\* graph order.
C27_ExistsNotExists ==
    EvaluateReturned => ExistenceRulesHold(TRUE)

\* C27 (exists, not_exists): the target set is the nodes or edges whose
\* kind is the rule's kind or in its kind set, and all nodes or edges when
\* no kind or the empty string is given; an exists rule yields exactly one
\* diagnostic, without target reference, when the set is empty and none
\* otherwise; a not_exists rule yields exactly one diagnostic per member of
\* the set, in graph order, and none when the set is empty.
C27_ExistsNotExistsNonEmptyKind ==
    EvaluateReturned => ExistenceRulesHold(FALSE)

\* on the chain graph the missing edge kind is reported once and each of the
\* two edges of the forbidden kinds once, in the order of the edges
C27_Witness ==
    /\ EvaluateReturned
    /\ Len(Given.edges) = 2
    /\ \E r \in LoadedOfType("exists") :
          /\ r.target.type = "edge"
          /\ TargetRefs(DiagnosticsFor(r)) = << None >>
    /\ \E r \in LoadedOfType("not_exists") :
          /\ r.target.type = "edge"
          /\ TargetRefs(DiagnosticsFor(r)) =
                << Some(EdgeTarget("a1", "expresses", "n1")),
                   Some(EdgeTarget("n1", "refinesTo", "r1")) >>

\* the number of edges of this kind that the outgoing-edge index of the
\* graph lists for the node
IndexedOutgoing(g, id, edgeKind) ==
    IF ~IsSome(g.indexes) THEN 0
    ELSE LET out == Indexed(Val(g.indexes).outgoing_edges, id)
         IN  Cardinality({i \in DOMAIN out : Some(out[i].kind) = edgeKind})
\* the target reference and the actual value of each diagnostic
Findings(diagnostics) ==
    [i \in DOMAIN diagnostics |->
        [ref    |-> diagnostics[i].target_ref,
         actual |-> diagnostics[i].metadata.actual_value]]

\* C28 (connected): a connected rule yields, for each of its target nodes in
\* graph order, a diagnostic iff the number of the node's outgoing edges of
\* the rule's edge_kind is less than min, where min is the rule's value
\* when one is given, 0 included, and 1 otherwise; the diagnostic's actual
\* value is that number.
C28_Connected ==
    EvaluateReturned =>
        \A r \in LoadedOfType("connected") :
            LET min     == IF IsSome(r.condition.min) THEN Val(r.condition.min)
                                                      ELSE 1
                members == MembersOf(r.target, Given, KindNonEmpty(r.target.kind))
                n(id)   == IndexedOutgoing(Given, id, r.condition.edge_kind)
                short   == SelectSeq(members, LAMBDA id : n(id) < min)
            IN  Findings(DiagnosticsFor(r)) =
                    Times([i \in DOMAIN short |->
                             [ref |-> Some(short[i]), actual |-> Num(n(short[i]))]],
                          Copies(r))

\* the actual value and the evidence anchors of each diagnostic
Counts(diagnostics) ==
    [i \in DOMAIN diagnostics |->
        [ref      |-> diagnostics[i].target_ref,
         actual   |-> diagnostics[i].metadata.actual_value,
         evidence |-> diagnostics[i].evidence_anchors]]

\* C29 (count): a count rule yields exactly one diagnostic when the number
\* of its targets is below min, min being given, or above max, max being
\* given, and none otherwise, so none when neither bound is given; the
\* diagnostic has no target reference, its actual value is the number of
\* targets and its evidence lists every target in graph order.
C29_Count ==
    EvaluateReturned =>
        \A r \in LoadedOfType("count") :
            LET members == MembersOf(r.target, Given, KindNonEmpty(r.target.kind))
                count   == Len(members)
                min     == r.condition.min
                max     == r.condition.max
                out     == \/ IsSome(min) /\ count < Val(min)
                           \/ IsSome(max) /\ count > Val(max)
            IN  Counts(DiagnosticsFor(r)) =
                    Times(IF out
                          THEN << [ref |-> None, actual |-> Num(count),
                                   evidence |-> members] >>
                          ELSE << >>, Copies(r))

\* three nodes where at most two are allowed: one diagnostic with the three
\* as evidence, and none from the rule without bounds
C29_Witness ==
    /\ EvaluateReturned
    /\ \E r \in LoadedOfType("count") :
          /\ r.condition.min = None /\ r.condition.max = Some(2)
          /\ Counts(DiagnosticsFor(r)) =
                << [ref |-> None, actual |-> Num(3),
                    evidence |-> << "a1", "n1", "r1" >>] >>
    /\ \E r \in LoadedOfType("count") :
          /\ r.condition.min = None /\ r.condition.max = None
          /\ DiagnosticsFor(r) = << >>

(***************************************************************************)
(*                                                                         *)
(* The lint core (packages/core/src/core.ts)                               *)
(*                                                                         *)
(* A string that is searched or rewritten is the sequence of its           *)
(* characters.  A PluginConfig has its four declared members, each          *)
(* optional; rules maps rule ids to levels and phases maps phase names to  *)
(* the rules of the phase.                                                 *)
(***************************************************************************)
\* b.includes(a)
IsInfix(a, b) ==
    \E i \in 1..(Len(b) - Len(a) + 1) : SubSeq(b, i, i + Len(a) - 1) = a

\* str.toLowerCase()
ToLowerCase(str) ==
    LET lower == [N |-> "n", R |-> "r", V |-> "v"]
    IN  [i \in DOMAIN str |->
           IF str[i] \in DOMAIN lower THEN lower[str[i]] ELSE str[i]]

\* str.replace(part, ''): the first occurrence is taken out
RemoveFirst(str, part) ==
    IF ~IsInfix(part, str) THEN str
    ELSE LET i == CHOOSE i \in 1..Len(str) :
                     /\ SubSeq(str, i, i + Len(part) - 1) = part
                     /\ \A j \in 1..(i - 1) :
                           SubSeq(str, j, j + Len(part) - 1) # part
         IN  SubSeq(str, 1, i - 1) \o SubSeq(str, i + Len(part), Len(str))

PluginConfig(enabled, profile, ruleLevels, phases) ==
    [enabled |-> enabled, profile |-> profile, rules |-> ruleLevels,
     phases |-> phases]

\* { ...under, ...over } of two plugin configs, either of which may be
\* undefined: a member of over that is present replaces the one of under
Spread(under, over) ==
    LET u == IF IsSome(under) THEN Val(under)
                              ELSE PluginConfig(None, None, None, None)
        o == IF IsSome(over) THEN Val(over)
                             ELSE PluginConfig(None, None, None, None)
    IN  [k \in DOMAIN u |-> IF IsSome(o[k]) THEN o[k] ELSE u[k]]

\* record[key] of an optional record of plugin configs: undefined when the
\* record or the key is absent
PluginConfigOf(pluginConfigs, name) ==
    IF IsSome(pluginConfigs) /\ name \in DOMAIN Val(pluginConfigs)
    THEN Some(Val(pluginConfigs)[name]) ELSE None

mergePhaseRules(config, activePhase) ==
    LET defaultRules == IF IsSome(config.rules) THEN Val(config.rules) ELSE << >>
    IN  IF \/ ~Truthy(activePhase)
           \/ ~IsSome(config.phases)
           \/ Val(activePhase) \notin DOMAIN Val(config.phases)
        THEN defaultRules
        ELSE Val(config.phases)[Val(activePhase)].rules @@ defaultRules

(***************************************************************************)
(* The plugins, graphs, configurations and options of the model            *)
(***************************************************************************)
NameNrvv  == << "@", "e", "k", "c", "/", "n", "r", "v", "v" >>
NameSysml == << "@", "e", "k", "c", "/", "s", "y", "s", "m", "l" >>
NameGhost == << "g", "h", "o", "s", "t" >>

\* a GraphLintPlugin: it detects and validates the graphs of its dialect,
\* and reports every rule of its config whose level is not off; detects
\* tells whether it has a detectSchema method
GraphLintPlugin(name, dialect, detects) ==
    [name |-> name, version |-> "1.0.0", dialect |-> dialect, detects |-> detects]

Plugins ==
    { GraphLintPlugin(NameNrvv, "nrvv", TRUE),
      GraphLintPlugin(NameSysml, "sysml", FALSE) }

LintGraph(schemaName, dialect) ==
    [metadata |-> Some([schema |-> schemaName]), dialect |-> dialect]

LintGraphs ==
    { [metadata |-> None, dialect |-> "nrvv"],
      LintGraph(Some(<< "N", "R", "V", "V" >>), "other"),
      LintGraph(Some(<< "s", "y", "s", "m", "l", "-", "v", "2" >>), "sysml"),
      LintGraph(Some(<< "u", "m", "l" >>), "other"),
      LintGraph(Some(<< >>), "nrvv"),
      LintGraph(None, "other") }

\* plugin.validateSchema(graph), plugin.lint(graph, config)
ValidateSchema(plugin, graph) ==
    IF graph.dialect = plugin.dialect THEN << >>
    ELSE << [type |-> "schema", message |-> <<"not a graph of", plugin.dialect>>] >>

RuleIds == << "r1", "r2" >>

PluginLint(plugin, graph, config) ==
    LET levels == IF IsSome(config.rules) THEN Val(config.rules) ELSE << >>
        on     == SelectSeq(RuleIds, LAMBDA r : r \in DOMAIN levels
                                                 /\ levels[r] # "off")
    IN  [i \in DOMAIN on |-> [ruleId |-> on[i], severity |-> levels[on[i]]]]

\* the configs given to registerPlugin
RegisterConfigs ==
    { None,
      Some(PluginConfig(None, Some("registered"), None, None)),
      Some(PluginConfig(Some(TRUE), Some("registered"),
                        Some([r1 |-> "warn"]), None)) }

\* the configs given to loadConfig
GlobalConfigs ==
    { GraphLintConfig(None, None, None, None),
      GraphLintConfig(
          Some(NameNrvv :> PluginConfig(None, Some("global"),
                              Some([r1 |-> "error", r2 |-> "off"]),
                              Some([Production |-> [rules |-> [r2 |-> "error"]]]))),
          Some(NameSysml), None, None),
      GraphLintConfig(
          Some(NameSysml :> PluginConfig(Some(FALSE), Some("global"), None, None)),
          None, Some(TRUE), Some("Production")) }

LintOptions(plugin, autoDetect, config, phase) ==
    [plugin |-> plugin, autoDetect |-> autoDetect, config |-> config,
     phase |-> phase]

\* the options given to lint
LintOptionsGiven ==
    { LintOptions(None, None, None, None),
      LintOptions(Some(NameNrvv), None, None, None),
      LintOptions(Some(NameGhost), None, None, None),
      LintOptions(None, None,
          Some(GraphLintConfig(
                 Some(NameNrvv :> PluginConfig(None, Some("option"), None, None)),
                 None, None, None)),
          None),
      LintOptions(None, None, None, Some("Production")),
      LintOptions(None, Some(TRUE),
          Some(GraphLintConfig(None, Some(NameNrvv), None, None)), None) }

(***************************************************************************)
(* registerPlugin, loadConfig, unregisterPlugin, clearPlugins              *)
(***************************************************************************)
\* the index of the entry of the Map with this key, 0 when there is none
EntryOf(entries, name) ==
    IF \E i \in DOMAIN entries : entries[i].plugin.name = name
    THEN CHOOSE i \in DOMAIN entries : entries[i].plugin.name = name
    ELSE 0

\* a registerPlugin that moves a key that is there to the end of the order
registerPluginAtEnd(entries, plugin, config) ==
    Append(SelectSeq(entries, LAMBDA e : e.plugin.name # plugin.name),
           [plugin |-> plugin, config |-> config])

\* this.plugins.set(plugin.name, { plugin, config }): a key that is there
\* keeps its place in the order of the Map
registerPlugin(entries, plugin, config) ==
    LET i     == EntryOf(entries, plugin.name)
        entry == [plugin |-> plugin, config |-> config]
    IN  IF i = 0 THEN Append(entries, entry)
        ELSE [entries EXCEPT ![i] = entry]

\* the entries after loadConfig(config): every registered plugin that the
\* config names gets the config's members spread over its own
loadConfigEntries(entries, config) ==
    [i \in DOMAIN entries |->
        LET named == PluginConfigOf(config.plugins, entries[i].plugin.name)
        IN  IF IsSome(named)
            THEN [entries[i] EXCEPT !.config = Some(Spread(entries[i].config, named))]
            ELSE entries[i]]

unregisterPlugin(entries, name) ==
    SelectSeq(entries, LAMBDA e : e.plugin.name # name)

(***************************************************************************)
(* lint                                                                    *)
(***************************************************************************)
\* the first entry of the Map whose test holds, None when none does; hit[i]
\* tells whether the test holds of entry i
FirstEntry(entries, hit) ==
    IF \E i \in DOMAIN entries : hit[i]
    THEN Some(entries[CHOOSE i \in DOMAIN entries :
                         hit[i] /\ \A j \in 1..(i - 1) : ~hit[j]])
    ELSE None

findPluginBySchema(entries, schemaName) ==
    LET normalized == ToLowerCase(schemaName)
    IN  FirstEntry(entries,
            [i \in DOMAIN entries |->
                \/ IsInfix(normalized, entries[i].plugin.name)
                \/ IsInfix(RemoveFirst(entries[i].plugin.name,
                                       << "@", "e", "k", "c", "/" >>),
                           normalized)])

detectPlugin(entries, graph) ==
    FirstEntry(entries,
        [i \in DOMAIN entries |->
            /\ entries[i].plugin.detects
            /\ graph.dialect = entries[i].plugin.dialect])

\* a || b of two optional values
OrElse(a, b) == IF Truthy(a) THEN a ELSE b

\* [threw, message, entry]: entry is None for null
selectPlugin(entries, config, graph, opts) ==
    LET found(e)  == [threw |-> FALSE, message |-> << >>, entry |-> e]
        named(n)  == LET i == EntryOf(entries, n)
                     IN  IF i = 0 THEN None ELSE Some(entries[i])
        schemaName == IF IsSome(graph.metadata) THEN Val(graph.metadata).schema
                                                ELSE None
        bySchema  == IF IsSome(schemaName) /\ Val(schemaName) # << >>
                     THEN findPluginBySchema(entries, Val(schemaName))
                     ELSE None
        detected  == IF opts.autoDetect = Some(TRUE) \/ config.autoDetect = Some(TRUE)
                     THEN detectPlugin(entries, graph)
                     ELSE None
        defaultPluginName ==
            IF IsSome(opts.config) /\ IsSome(Val(opts.config).defaultPlugin)
                                   /\ Val(opts.config).defaultPlugin # Some(<< >>)
            THEN Val(opts.config).defaultPlugin
            ELSE config.defaultPlugin
        byDefault == IF IsSome(defaultPluginName) /\ defaultPluginName # Some(<< >>)
                     THEN named(Val(defaultPluginName))
                     ELSE None
    IN  IF IsSome(opts.plugin) /\ opts.plugin # Some(<< >>)
        THEN IF IsSome(named(Val(opts.plugin)))
             THEN found(named(Val(opts.plugin)))
             ELSE [threw |-> TRUE,
                   message |-> <<"Plugin not found:", Val(opts.plugin)>>,
                   entry |-> None]
        ELSE IF IsSome(bySchema) THEN found(bySchema)
        ELSE IF IsSome(detected) THEN found(detected)
        ELSE IF IsSome(byDefault) THEN found(byDefault)
        ELSE found(IF entries = << >> THEN None ELSE Some(entries[1]))

\* [threw, message, plugin]: plugin is None for null
getPluginForGraph(entries, config, graph, opts) ==
    LET selected == selectPlugin(entries, config, graph, opts)
    IN  [ threw |-> selected.threw, message |-> selected.message,
          plugin |-> IF IsSome(selected.entry)
                     THEN Some(Val(selected.entry).plugin) ELSE None ]

\* a getPluginConfig in which the registered config is spread last
getPluginConfigRegisteredLast(entries, config, name, opts) ==
    LET optionConfig ==
            IF IsSome(opts.config)
            THEN PluginConfigOf(Val(opts.config).plugins, name) ELSE None
        registeredConfig == entries[EntryOf(entries, name)].config
        globalConfig == PluginConfigOf(config.plugins, name)
        mergedConfig ==
            Spread(Some(Spread(globalConfig, optionConfig)), registeredConfig)
        activePhase ==
            OrElse(opts.phase,
                   OrElse(IF IsSome(opts.config) THEN Val(opts.config).activePhase
                                                 ELSE None,
                          config.activePhase))
    IN  IF Truthy(activePhase)
        THEN [mergedConfig EXCEPT
                !.rules = Some(mergePhaseRules(mergedConfig, activePhase))]
        ELSE mergedConfig

getPluginConfig(entries, config, name, opts) ==
    LET optionConfig ==
            IF IsSome(opts.config)
            THEN PluginConfigOf(Val(opts.config).plugins, name) ELSE None
        registeredConfig == entries[EntryOf(entries, name)].config
        globalConfig == PluginConfigOf(config.plugins, name)
        mergedConfig ==
            Spread(Some(Spread(globalConfig, registeredConfig)), optionConfig)
        activePhase ==
            OrElse(opts.phase,
                   OrElse(IF IsSome(opts.config) THEN Val(opts.config).activePhase
                                                 ELSE None,
                          config.activePhase))
    IN  IF Truthy(activePhase)
        THEN [mergedConfig EXCEPT
                !.rules = Some(mergePhaseRules(mergedConfig, activePhase))]
        ELSE mergedConfig

\* what lint(graph, opts) gives: an error thrown, or the LintResult with,
\* next to it, the config the plugin's lint was called with
lint(entries, config, graph, opts, executionTime) ==
    LET selected == selectPlugin(entries, config, graph, opts)
        plugin   == Val(selected.entry).plugin
        pluginConfig == getPluginConfig(entries, config, plugin.name, opts)
        schemaErrors == ValidateSchema(plugin, graph)
    IN  IF selected.threw
        THEN [threw |-> TRUE, message |-> selected.message]
        ELSE IF ~IsSome(selected.entry)
        THEN [threw |-> TRUE, message |-> <<"No plugin available for this graph">>]
        ELSE [ threw |-> FALSE,
               passed |-> pluginConfig,
               result |-> [ schemaValid |-> schemaErrors = << >>,
                            schemaErrors |-> schemaErrors,
                            violations |-> PluginLint(plugin, graph, pluginConfig),
                            plugin |-> plugin.name,
                            executionTime |-> executionTime ] ]

(***************************************************************************)
(* The lint core as a state machine                                        *)
(***************************************************************************)
\* a constructed GraphLintCore next to engines that stay idle
LintInit == CriteriaInit /\ criteriaDir = None

RegisterPlugin ==
    /\ lintOps < MaxLintOps
    /\ \E plugin \in Plugins, config \in RegisterConfigs :
          /\ plugins' = registerPlugin(plugins, plugin, config)
          /\ registeredAs' =
                (plugin.name :> config) @@ registeredAs
          /\ registeredAt' =
                IF plugin.name \in DOMAIN registeredAt THEN registeredAt
                ELSE (plugin.name :> lintOps) @@ registeredAt
    /\ lintOps' = lintOps + 1
    /\ UNCHANGED << lintConfig, linted, exported >>
    /\ UNCHANGED << engineVars, criteriaVars, clock >>

LoadConfig ==
    /\ lintOps < MaxLintOps
    /\ \E config \in GlobalConfigs :
          /\ lintConfig' = config
          /\ plugins' = loadConfigEntries(plugins, config)
    /\ lintOps' = lintOps + 1
    /\ UNCHANGED << registeredAs, registeredAt, linted, exported >>
    /\ UNCHANGED << engineVars, criteriaVars, clock >>

UnregisterPlugin ==
    /\ lintOps < MaxLintOps
    /\ \E plugin \in Plugins :
          /\ plugins' = unregisterPlugin(plugins, plugin.name)
          /\ registeredAs' =
                [n \in DOMAIN registeredAs \ {plugin.name} |-> registeredAs[n]]
          /\ registeredAt' =
                [n \in DOMAIN registeredAt \ {plugin.name} |-> registeredAt[n]]
    /\ lintOps' = lintOps + 1
    /\ UNCHANGED << lintConfig, linted, exported >>
    /\ UNCHANGED << engineVars, criteriaVars, clock >>

ClearPlugins ==
    /\ lintOps < MaxLintOps
    /\ plugins' = << >>
    /\ registeredAs' = << >>
    /\ registeredAt' = << >>
    /\ lintOps' = lintOps + 1
    /\ UNCHANGED << lintConfig, linted, exported >>
    /\ UNCHANGED << engineVars, criteriaVars, clock >>

Lint ==
    /\ lintOps < MaxLintOps
    /\ \E graph \in LintGraphs, opts \in LintOptionsGiven, elapsed \in {0, 1} :
          linted' = Some([ graph |-> graph, options |-> opts,
                           left |-> lint(plugins, lintConfig, graph, opts, elapsed) ])
    /\ lintOps' = lintOps + 1
    /\ UNCHANGED << plugins, lintConfig, registeredAs, registeredAt, exported >>
    /\ UNCHANGED << engineVars, criteriaVars, clock >>

LintNext ==
    RegisterPlugin \/ LoadConfig \/ UnregisterPlugin \/ ClearPlugins \/ Lint

SpecLint == LintInit /\ [][LintNext]_vars

(***************************************************************************)
(* The lint function the core package exports                              *)
(***************************************************************************)
\* what loadConfig() finds: no config file, a config file, or a file that
\* does not parse
ConfigFiles ==
    [ readable : {TRUE}, config : GlobalConfigs ]
       \cup { [ readable |-> FALSE,
                config |-> GraphLintConfig(None, None, None, None) ] }

\* [threw, message, config]: JSON.parse of the file's content
loadConfigFile(file) ==
    IF file.readable
    THEN [threw |-> FALSE, message |-> << >>, config |-> file.config]
    ELSE [threw |-> TRUE, message |-> <<"Failed to load config from">>,
          config |-> file.config]

\* lint(graph, options) of the package: a new GraphLintCore, to which no
\* plugin is registered, is given options.config, loaded from the file when
\* the options have none, and lints
indexLint(graph, opts, file, executionTime) ==
    LET loaded == loadConfigFile(file)
        withConfig == IF IsSome(opts.config) THEN opts
                      ELSE [opts EXCEPT !.config = Some(loaded.config)]
        core == loadConfigEntries(<< >>, Val(withConfig.config))
    IN  IF ~IsSome(opts.config) /\ loaded.threw
        THEN [threw |-> TRUE, message |-> loaded.message]
        ELSE lint(core, Val(withConfig.config), graph, withConfig, executionTime)

IndexLint ==
    /\ Len(exported) < MaxExportedLints
    /\ \E graph \in LintGraphs, opts \in LintOptionsGiven,
          file \in ConfigFiles, elapsed \in {0, 1} :
          exported' = Append(exported,
                             [ graph |-> graph, options |-> opts, file |-> file,
                               left |-> indexLint(graph, opts, file, elapsed) ])
    /\ UNCHANGED << plugins, lintConfig, registeredAs, registeredAt, lintOps,
                    linted >>
    /\ UNCHANGED << engineVars, criteriaVars, clock >>

SpecIndexLint == LintInit /\ [][IndexLint]_vars

(***************************************************************************)
(* Properties of the lint core                                             *)
(***************************************************************************)
\* the lint call of this step gave a LintResult
LintReturned == linted' # linted /\ ~Val(linted').left.threw
\* the value of a member in an optional plugin config
Member(config, k) == IF IsSome(config) THEN Val(config)[k] ELSE None
\* a phase is active for the lint call with these options
PhaseActive(opts) ==
    \/ Truthy(opts.phase)
    \/ IsSome(opts.config) /\ Truthy(Val(opts.config).activePhase)
    \/ Truthy(lintConfig.activePhase)

\* C30 (plugin configuration precedence): in every lint call that reaches
\* the plugin, each member of the config the plugin is called with has the
\* value of options.config.plugins[name] if that has the member, else the
\* value of the config given to registerPlugin if that has it, else the
\* value of the global config given to loadConfig, whichever of
\* registerPlugin and loadConfig was called first (rules is left aside when
\* a phase is active, as the rules of the phase are merged into it).
C30_ConfigPrecedence ==
    [][ LintReturned =>
          LET call   == Val(linted')
              name   == call.left.result.plugin
              option == IF IsSome(call.options.config)
                        THEN PluginConfigOf(Val(call.options.config).plugins, name)
                        ELSE None
              given  == registeredAs[name]
              global == PluginConfigOf(lintConfig.plugins, name)
          IN  \A k \in DOMAIN call.left.passed :
                 (k = "rules" /\ PhaseActive(call.options)) \/
                 call.left.passed[k] =
                     IF IsSome(Member(option, k)) THEN Member(option, k)
                     ELSE IF IsSome(Member(given, k)) THEN Member(given, k)
                     ELSE Member(global, k) ]_vars

(***************************************************************************)
(* Plugin selection order                                                  *)
(***************************************************************************)
Registered == DOMAIN registeredAt

\* of a non-empty set of registered names, the one registered earliest
Earliest(names) ==
    CHOOSE n \in names : \A m \in names : registeredAt[n] <= registeredAt[m]

\* a schema name that is not blank matches a plugin name case-insensitively
\* when one holds the other, the plugin name without its @ekc/ scope
MatchesSchema(name, schemaName) ==
    /\ schemaName # << >>
    /\ \/ IsInfix(ToLowerCase(schemaName), name)
       \/ IsInfix(RemoveFirst(name, << "@", "e", "k", "c", "/" >>),
                  ToLowerCase(schemaName))

SchemaMatching(graph) ==
    IF IsSome(graph.metadata) /\ IsSome(Val(graph.metadata).schema)
    THEN { n \in Registered : MatchesSchema(n, Val(Val(graph.metadata).schema)) }
    ELSE {}

Detecting(graph, opts) ==
    IF opts.autoDetect = Some(TRUE) \/ lintConfig.autoDetect = Some(TRUE)
    THEN { n \in Registered :
             \E p \in Plugins : /\ p.name = n
                                /\ p.detects
                                /\ p.dialect = graph.dialect }
    ELSE {}

DefaultPlugin(opts) ==
    LET ofOptions == IF IsSome(opts.config) THEN Val(opts.config).defaultPlugin
                                            ELSE None
        name == IF IsSome(ofOptions) THEN ofOptions ELSE lintConfig.defaultPlugin
    IN  IF IsSome(name) THEN {Val(name)} \cap Registered ELSE {}

\* the step of the order that decides, 6 when none does
Step(graph, opts) ==
    IF IsSome(opts.plugin) THEN 1
    ELSE IF SchemaMatching(graph) # {} THEN 2
    ELSE IF Detecting(graph, opts) # {} THEN 3
    ELSE IF DefaultPlugin(opts) # {} THEN 4
    ELSE IF Registered # {} THEN 5
    ELSE 6

\* [found, name]: the name the order picks, or none
Picked(graph, opts) ==
    LET step == Step(graph, opts)
        pick(n) == [found |-> TRUE, name |-> n]
    IN  CASE step = 1 -> pick(Val(opts.plugin))
          [] step = 2 -> pick(Earliest(SchemaMatching(graph)))
          [] step = 3 -> pick(Earliest(Detecting(graph, opts)))
          [] step = 4 -> pick(Earliest(DefaultPlugin(opts)))
          [] step = 5 -> pick(Earliest(Registered))
          [] OTHER    -> [found |-> FALSE, name |-> << >>]

\* C31: after any sequence of registerPlugin, unregisterPlugin, clearPlugins
\* and loadConfig, lint and getPluginForGraph pick the plugin named in
\* options.plugin and fail with 'Plugin not found' when it is not
\* registered, else a plugin matching graph.metadata.schema, else the first
\* registered plugin that detects the graph when auto-detection is on, else
\* the registered default plugin, else the earliest-registered plugin still
\* registered; lint fails with 'No plugin available for this graph' exactly
\* when none is selected; a name registered again has one entry, the later.
C31_SelectionOrder ==
    [][ /\ \A n \in DOMAIN registeredAt' :
              Cardinality({ i \in DOMAIN plugins' : plugins'[i].plugin.name = n }) = 1
        /\ \A i \in DOMAIN plugins' : plugins'[i].plugin.name \in DOMAIN registeredAt'
        /\ (registeredAs' # registeredAs /\ DOMAIN registeredAs \subseteq DOMAIN registeredAs')
              => \A n \in DOMAIN registeredAs :
                    registeredAs'[n] # registeredAs[n]
                       => plugins'[EntryOf(plugins', n)].config = registeredAs'[n]
        /\ linted' # linted =>
              LET graph  == Val(linted').graph
                  opts   == Val(linted').options
                  left   == Val(linted').left
                  got    == getPluginForGraph(plugins, lintConfig, graph, opts)
                  picked == Picked(graph, opts)
                  step   == Step(graph, opts)
              IN  /\ (step = 1 /\ picked.name \notin Registered)
                        => /\ left.threw
                           /\ left.message = <<"Plugin not found:", picked.name>>
                           /\ got.threw
                           /\ got.message = left.message
                  /\ (step = 6)
                        => /\ left.threw
                           /\ left.message = <<"No plugin available for this graph">>
                           /\ ~got.threw
                           /\ got.plugin = None
                  /\ (step \in 1..5 /\ picked.name \in Registered)
                        => /\ ~left.threw
                           /\ left.result.plugin = picked.name
                           /\ ~got.threw
                           /\ IsSome(got.plugin)
                           /\ Val(got.plugin).name = picked.name
                  /\ (left.threw /\ left.message = <<"No plugin available for this graph">>)
                        => step = 6 ]_vars

\* a lint that fell through to the earliest-registered of two plugins
C31_Witness ==
    /\ IsSome(linted)
    /\ ~Val(linted).left.threw
    /\ Cardinality(Registered) = 2
    /\ Step(Val(linted).graph, Val(linted).options) = 5
    /\ Val(linted).left.result.plugin = Earliest(Registered)
    /\ plugins[1].plugin.name = Earliest(Registered)

(***************************************************************************)
(* The exported lint function on its own                                   *)
(***************************************************************************)
\* C32: for any graph and any options that do not name a plugin, the lint
\* function the core package exports loads the configuration, runs the lint
\* and returns a LintResult rather than throwing.
C32_ExportedLintReturns ==
    \A i \in DOMAIN exported :
        (~IsSome(exported[i].options.plugin) /\ exported[i].file.readable)
            => ~exported[i].left.threw

(***************************************************************************)
(* Invariants of the store                                                 *)
(***************************************************************************)
\* the kinds of the nodes of s named ref (one kind when ids are unique)
KindsOf(s, ref) == { n.kind : n \in { m \in Range(s.nodes) : m.id = ref } }

\* s conforms to sch: node kinds, edge kinds, and the endpoint constraint
\* of every edge on the ends that name a node
Conforms(s, sch) ==
    /\ \A n \in Range(s.nodes) : n.kind \in Range(sch.node_kinds)
    /\ \A e \in Range(s.edges) :
          /\ e.kind \in Range(sch.edge_kinds)
          /\ e.kind \in DOMAIN sch.edge_definitions
          /\ KindsOf(s, e.from) \subseteq Range(sch.edge_definitions[e.kind].from)
          /\ KindsOf(s, e.to) \subseteq Range(sch.edge_definitions[e.kind].to)

\* C33: starting from a graph that conforms to the effective schema, after
\* any sequence of execute calls every node's kind is in schema.node_kinds,
\* every edge's kind is in schema.edge_kinds and every edge has its source
\* kind in its definition's from and its target kind in its definition's to.
C33_SchemaConformance ==
    (IsSome(ssot) /\ IsSome(schema)) => Conforms(Val(ssot), Val(schema))

\* no edge of s has an end that names no node of s
NoDangling(s) ==
    \A e \in Range(s.edges) : e.from \in NodeIds(s) /\ e.to \in NodeIds(s)

\* C34: starting from a graph in which every edge endpoint names an existing
\* node, after any sequence of execute calls, successful or failed, every
\* edge's from and to name nodes present in the graph.
C34_NoDanglingEdges ==
    IsSome(ssot) => NoDangling(Val(ssot))

(***************************************************************************)
(* Overlapping execute calls: what the last one leaves                     *)
(***************************************************************************)
\* every node and edge that the changes report as added is in s
ChangesPresent(changes, s) ==
    \A i \in DOMAIN changes :
        /\ changes[i].type = "node_added" => changes[i].target \in NodeIds(s)
        /\ changes[i].type = "edge_added" =>
               \E e \in Range(s.edges) :
                   changes[i].target = e.from \o "->" \o e.kind \o "->" \o e.to

\* C35: when execute calls on one engine overlap, once all of them have
\* returned the nodes and edges added by a call that reported success are
\* in the SSoT, and the indexes of the SSoT are the ones of its nodes and
\* edges.
C35_SerializableUnderOverlap ==
    (inflight = << >> /\ Called /\ IsSome(ssot) /\ Returns /\ result.success) =>
        /\ ChangesPresent(Val(result.changes), Val(ssot))
        /\ Val(ssot).indexes = rebuildIndexes(Val(ssot)).indexes

(***************************************************************************)
(* The rollback snapshot in the caller's hands                             *)
(***************************************************************************)
\* C36: after an execute that failed during execution, later successful
\* execute calls change the engine's SSoT but do not change the
\* original_state_snapshot the failed call returned.
C36_SnapshotIndependent ==
    IsSome(held) => Val(held).reads = Val(held).returned

(***************************************************************************)
(* Indexes                                                                 *)
(***************************************************************************)
\* C37: in every state reachable after initialize through any sequence of
\* execute calls, also when the loaded SSoT document had an indexes member,
\* the indexes equal the projection of the current nodes and edges.
C37_IndexesNeverStale ==
    IsSome(ssot) => Val(ssot).indexes = Some(BuildIndexes(Val(ssot)))

(***************************************************************************)
(* Connected rules and the indexes of the graph                            *)
(***************************************************************************)
\* the number of edges of the graph that leave the node and have this kind
Outgoing(g, id, edgeKind) ==
    Cardinality({i \in DOMAIN g.edges :
                    g.edges[i].from = id /\ Some(g.edges[i].kind) = edgeKind})

\* C38: for every graph, a connected rule gives a diagnostic for a target
\* node iff the number of edges of graph.edges that leave the node and have
\* the rule's edge_kind is below the minimum (the rule's min when it is
\* given and not 0, else 1), whether the graph's indexes are present,
\* absent or built from earlier edges.
C38_ConnectedReadsEdges ==
    EvaluateReturned =>
        \A r \in LoadedOfType("connected") :
            LET min     == IF IsSome(r.condition.min) /\ Val(r.condition.min) # 0
                           THEN Val(r.condition.min) ELSE 1
                members == MembersOf(r.target, Given, KindNonEmpty(r.target.kind))
            IN  { d.target_ref : d \in Range(DiagnosticsFor(r)) } =
                    { Some(id) : id \in
                        { m \in Range(members) :
                            Outgoing(Given, m, r.condition.edge_kind) < min } }

(***************************************************************************)
(* The rules that pass                                                     *)
(***************************************************************************)
\* the places of the loaded rules that have no diagnostic in the evaluation
Passing ==
    { i \in DOMAIN Loaded :
        \A j \in DOMAIN E1.diagnostics :
            E1.diagnostics[j].rule_id # Loaded[i].id }

\* C39: for every graph and rule set, passed equals the number of loaded
\* rules that produced no diagnostic, so 0 <= passed <= total_rules.
C39_PassedCountsPassingRules ==
    EvaluateReturned =>
        /\ E1.passed = Cardinality(Passing)
        /\ 0 <= E1.passed
        /\ E1.passed <= E1.total_rules

(***************************************************************************)
(* Node ids                                                                *)
(***************************************************************************)
\* the ids of the nodes of the documents the engine may load
ImportedIds == UNION { NodeIds(d.ssotFile) : d \in Deployments }

\* every id a node of the graph can have had once n uuids were drawn
Seen(n) == ImportedIds \cup { Uuid(k) : k \in 1..n }

Distinct(nodes) ==
    \A i, j \in DOMAIN nodes : i # j => nodes[i].id # nodes[j].id

\* C40: starting from a graph whose node ids are pairwise distinct, after
\* any sequence of execute calls the node ids are pairwise distinct, and
\* the id of a node created by I.AddNode, I.AddNeed or
\* I.AddRequirementRefinement is the id of no node that exists or has ever
\* existed in the graph.
C40_NodeIdsUnique ==
    [][ /\ IsSome(ssot') =>
              /\ Distinct(Val(ssot').nodes)
              /\ NodeIds(Val(ssot')) \subseteq Seen(uuidCount')
        /\ (calls' = calls + 1 /\ IsSome(ssot) /\ result'.success) =>
              /\ NodeIds(Val(ssot')) \ NodeIds(Val(ssot)) =
                    { c.target : c \in { d \in Range(Val(result'.changes)) :
                                            d.type = "node_added" } }
              /\ (NodeIds(Val(ssot')) \ NodeIds(Val(ssot))) \cap Seen(uuidCount)
                    = {} ]_vars

\* a node created after a node of the loaded graph was deleted
C40_Witness ==
    /\ Called /\ Returns /\ result.success
    /\ CallType \in {"I.AddNode", "I.AddNeed", "I.AddRequirementRefinement"}
    /\ calls = 2
    /\ \E id \in ImportedIds : id \in NodeIds(G0) /\ Len(G0.nodes) = 2
    /\ Len(G1.nodes) = 3
    /\ Distinct(G1.nodes)
    /\ \E c \in Range(Val(result.changes)) :
          c.type = "node_added" /\ c.target \notin Seen(uuidCount - 2)

====
